---- MODULE Spec2Model ----
(***************************************************************************)
(* PageMind: the streaming chat session of the content script              *)
(* (src/src/content.tsx, PageMindApp) and the background service worker    *)
(* (src/dist/background.js, handleStreamingChat and the onMessage          *)
(* handlers), with the host (chrome.runtime, chrome.storage) between them. *)
(*                                                                         *)
(* Text is a sequence of one-character strings on the background side      *)
(* (the response bytes, ASCII) and a sequence of string pieces on the UI   *)
(* side (message contents); concatenation is \o on both.                   *)
(***************************************************************************)
EXTENDS Integers, Sequences, FiniteSets, TLC

\* ------------------------------------------------------------------ bounds
MaxSends == 2
MaxLines == 2
MaxSteps == 1
MaxGap == 2
MaxRequests == 3

\* ------------------------------------------------------- program constants
\* line.slice(6): the length of the "data: " marker
PrefixLen == 6

NL == "\n"
DataPrefix == <<"d", "a", "t", "a", ":", " ">>
DoneToken == <<"[", "D", "O", "N", "E", "]">>
NoKeyError == "API key not configured. Click the extension icon and set your OpenAI API key."
ApiFailedError == "API request failed"
NoBodyError == "No response body"
InvalidatedError == "Extension context invalidated"
ReloadedError == "Extension was reloaded. Please refresh this page."
ErrorPrefix == "Error: "
DefaultModel == "gpt-4o-mini"

\* -------------------------------------------------------------- sequences
Last(s) == s[Len(s)]
Front(s) == SubSeq(s, 1, Len(s) - 1)

RECURSIVE Flatten(_)
Flatten(ss) == IF ss = <<>> THEN <<>> ELSE Head(ss) \o Flatten(Tail(ss))

\* String.prototype.split("\n"): always at least one piece
RECURSIVE SplitNL(_)
SplitNL(s) ==
  IF \A i \in 1..Len(s) : s[i] # NL THEN <<s>>
  ELSE LET i == CHOOSE k \in 1..Len(s) : s[k] = NL /\ \A j \in 1..(k - 1) : s[j] # NL
       IN  <<SubSeq(s, 1, i - 1)>> \o SplitNL(SubSeq(s, i + 1, Len(s)))

startsWith(line, prefix) ==
  Len(line) >= Len(prefix) /\ SubSeq(line, 1, Len(prefix)) = prefix

\* String.prototype.slice(n)
slice(line, n) == SubSeq(line, n + 1, Len(line))

\* --------------------------------------------------------- stream events
ChunkEvent(c) == [type |-> "chunk", content |-> c, error |-> ""]
DoneEvent == [type |-> "done", content |-> <<>>, error |-> ""]
ErrorEvent(e) == [type |-> "error", content |-> <<>>, error |-> e]
IsTerminal(ev) == ev.type \in {"done", "error"}

\* ------------------------------------------------------ the line decoder
\* The delta texts a payload can carry
ContentChars == {"x", "y"}

\* JSON.parse(data) followed by parsed.choices?.[0]?.delta?.content, on the
\* payload grammar of the model: "{" c "}" is an object whose delta text is c,
\* "{}" an object without delta text; any other payload throws.
JSONParse(data) ==
  IF Len(data) = 3 /\ data[1] = "{" /\ data[3] = "}" /\ data[2] \in ContentChars
    THEN [ok |-> TRUE, content |-> <<data[2]>>]
  ELSE IF data = <<"{", "}">>
    THEN [ok |-> TRUE, content |-> <<>>]
  ELSE [ok |-> FALSE, content |-> <<>>]

\* A variant of the body without the inner try: a payload that does not
\* parse ends the request with the parser's error
DecodePayloadThrowing(line) ==
  LET data == slice(line, PrefixLen)
      parsed == JSONParse(data)
  IN  IF data = DoneToken THEN [events |-> <<DoneEvent>>, return |-> TRUE]
      ELSE IF ~parsed.ok
        THEN [events |-> <<ErrorEvent("Unexpected end of JSON input")>>, return |-> TRUE]
      ELSE IF parsed.content # <<>>
        THEN [events |-> <<ChunkEvent(parsed.content)>>, return |-> FALSE]
      ELSE [events |-> <<>>, return |-> FALSE]

\* A variant of the body that posts a chunk for every payload that parses,
\* with or without delta text
DecodePayloadAnyDelta(line) ==
  LET data == slice(line, PrefixLen)
      parsed == JSONParse(data)
  IN  IF data = DoneToken THEN [events |-> <<DoneEvent>>, return |-> TRUE]
      ELSE IF parsed.ok
        THEN [events |-> <<ChunkEvent(parsed.content)>>, return |-> FALSE]
      ELSE [events |-> <<>>, return |-> FALSE]

\* The body of `if (line.startsWith("data: "))`: the events the line posts and
\* whether handleStreamingChat returns on it.
DecodePayload(line) ==
  LET data == slice(line, PrefixLen)
      parsed == JSONParse(data)
  IN  IF data = DoneToken THEN [events |-> <<DoneEvent>>, return |-> TRUE]
      ELSE IF parsed.ok /\ parsed.content # <<>>
        THEN [events |-> <<ChunkEvent(parsed.content)>>, return |-> FALSE]
      ELSE [events |-> <<>>, return |-> FALSE]

\* The body of `for (const line of lines)` for one line
DecodeLine(line) ==
  IF startsWith(line, DataPrefix)
    THEN DecodePayload(line)
    ELSE [events |-> <<>>, return |-> FALSE]

\* A variant of the for loop that posts done on the termination token and
\* goes on with the next line instead of returning
RECURSIVE DecodeLinesNoReturn(_)
DecodeLinesNoReturn(lines) ==
  IF lines = <<>> THEN [events |-> <<>>, return |-> FALSE]
  ELSE LET first == DecodeLine(Head(lines))
           rest == DecodeLinesNoReturn(Tail(lines))
       IN  [events |-> first.events \o rest.events, return |-> FALSE]

\* The for loop over the complete lines of one read
RECURSIVE DecodeLines(_)
DecodeLines(lines) ==
  IF lines = <<>> THEN [events |-> <<>>, return |-> FALSE]
  ELSE LET first == DecodeLine(Head(lines))
       IN  IF first.return THEN first
           ELSE LET rest == DecodeLines(Tail(lines))
                IN  [events |-> first.events \o rest.events, return |-> rest.return]

\* A variant of the read step that does not carry the unfinished line over
FeedNoCarry(buffer, value) ==
  LET lines == SplitNL(buffer \o value)
  IN  [buffer |-> <<>>, lines |-> Front(lines)]

\* buffer += decode(value); lines = buffer.split("\n"); buffer = lines.pop() || ""
Feed(buffer, value) ==
  LET lines == SplitNL(buffer \o value)
  IN  [buffer |-> Last(lines), lines |-> Front(lines)]

\* ------------------------------------------------------------ the values
Modes == {"explain", "quiz", "ask", "summarize"}
Models == {"gpt-4o-mini", "gpt-4o"}
Origins == {"site", "other"}
\* what the user types into the textarea, and what the user selects on the page
InputValues == {<<"q">>, <<" ">>}
SelectedTexts == {<<"s">>}
\* the credential the user saves
ApiKeys == {"sk-1"}
\* error messages of the remote endpoint (error.error?.message; "" when absent)
RemoteErrors == {"Incorrect API key provided", ""}
\* messages of a thrown Error (fetch, reader.read)
NetworkError == "Failed to fetch"
\* message of the SyntaxError response.json() throws on a body that is not JSON
JsonSyntaxError == "Unexpected token < in JSON at position 0"
\* chrome.runtime.lastError.message other than the invalidation message
PortClosedError == "The message port closed before a response was received."

\* String.prototype.includes('API key') on the error texts of the model
IncludesApiKey(e) == e \in {NoKeyError, "Incorrect API key provided"}
\* String.prototype.includes('Extension context invalidated')
IncludesInvalidated(e) == e = InvalidatedError

\* String.prototype.trim on a sequence of pieces, " " the whitespace piece
RECURSIVE TrimLeft(_)
TrimLeft(s) == IF s # <<>> /\ Head(s) = " " THEN TrimLeft(Tail(s)) ELSE s
RECURSIVE TrimRight(_)
TrimRight(s) == IF s # <<>> /\ Last(s) = " " THEN TrimRight(Front(s)) ELSE s
trim(s) == TrimRight(TrimLeft(s))

\* getDomain(): window.location.hostname || 'default'
getDomain == "site"

\* chrome.storage.local has no record chat_<origin>
NoRecord == [present |-> FALSE, messages |-> <<>>]
Record(msgs) == [present |-> TRUE, messages |-> msgs]

VARIABLES
  isOpen, mode, messages, input, isLoading, selectedContext, hasApiKey,
  showSettings, contextInvalidated, selectedModel,  \* useState of PageMindApp
  mounted,      \* the mount effect (init and the liveness interval) has run
  alive,        \* chrome.runtime.id is defined in the content script
  now,          \* Date.now()
  store,        \* chrome.storage: chat_<origin>, openaiApiKey, selectedModel
  bgq,          \* chrome.runtime.sendMessage requests on their way to the background
  replies,      \* responses on their way to the callbacks of the content script
  ports,        \* the channels opened by chrome.runtime.connect, in order
  nsends,       \* the number of accepted sends
  nsteps        \* the number of user actions on the panel outside a send

uiVars == <<isOpen, mode, messages, input, isLoading, selectedContext, hasApiKey,
            showSettings, contextInvalidated, selectedModel, mounted>>
hostVars == <<alive, now, store, bgq, replies>>
vars == <<uiVars, hostVars, ports, nsends, nsteps>>

\* A variant of the placeholder that is created settled
StreamingMessageSettled(id) ==
  [id |-> id, role |-> "assistant", content |-> <<>>, isStreaming |-> FALSE]

\* ------------------------------------------------------------- messages
UserMessage(id, c) == [id |-> id, role |-> "user", content |-> c, isStreaming |-> FALSE]
StreamingMessage(id) == [id |-> id, role |-> "assistant", content |-> <<>>, isStreaming |-> TRUE]

\* messages.some(m => m.isStreaming)
SomeStreaming(msgs) == \E i \in 1..Len(msgs) : msgs[i].isStreaming

\* A variant of the chunk fold that puts the new text in front
FoldChunkInFront(prev, assistantId, c) ==
  [i \in 1..Len(prev) |->
     IF prev[i].id = assistantId THEN [prev[i] EXCEPT !.content = c \o @] ELSE prev[i]]

\* prev.map(m => m.id === assistantId ? {...m, content: m.content + chunk.content} : m)
FoldChunk(prev, assistantId, c) ==
  [i \in 1..Len(prev) |->
     IF prev[i].id = assistantId THEN [prev[i] EXCEPT !.content = @ \o c] ELSE prev[i]]

\* prev.map(m => m.id === assistantId ? {...m, isStreaming: false} : m)
FoldDone(prev, assistantId) ==
  [i \in 1..Len(prev) |->
     IF prev[i].id = assistantId THEN [prev[i] EXCEPT !.isStreaming = FALSE] ELSE prev[i]]

\* A variant of the error fold that sets the content and leaves isStreaming
FoldErrorStillStreaming(prev, assistantId, e) ==
  [i \in 1..Len(prev) |->
     IF prev[i].id = assistantId
       THEN [prev[i] EXCEPT !.content = <<ErrorPrefix, e>>]
       ELSE prev[i]]

\* A variant of the error fold that appends the error string to the content
FoldErrorAppends(prev, assistantId, e) ==
  [i \in 1..Len(prev) |->
     IF prev[i].id = assistantId
       THEN [prev[i] EXCEPT !.content = @ \o <<ErrorPrefix, e>>, !.isStreaming = FALSE]
       ELSE prev[i]]

\* prev.map(m => m.id === assistantId
\*   ? {...m, content: `<cross mark> Error: ${error}`, isStreaming: false} : m)
FoldError(prev, assistantId, e) ==
  [i \in 1..Len(prev) |->
     IF prev[i].id = assistantId
       THEN [prev[i] EXCEPT !.content = <<ErrorPrefix, e>>, !.isStreaming = FALSE]
       ELSE prev[i]]

\* A variant of the conversion that keeps only the last message
RoleContentOfLast(msgs) ==
  <<[role |-> msgs[Len(msgs)].role, content |-> msgs[Len(msgs)].content]>>

\* messages.map(m => ({role: m.role, content: m.content}))
RoleContent(msgs) == [i \in 1..Len(msgs) |-> [role |-> msgs[i].role, content |-> msgs[i].content]]

\* --------------------------------------------------- one-shot messages
Request(type, msgs, value) == [type |-> type, messages |-> msgs, value |-> value]
Reply(type, msgs, value) == [type |-> type, messages |-> msgs, value |-> value, failed |-> FALSE]
\* the callback runs with chrome.runtime.lastError set
FailedReply(type) == [type |-> type, messages |-> <<>>, value |-> "", failed |-> TRUE]
HasCallback(type) == type \in {"GET_API_KEY", "GET_MODEL", "GET_CHAT_HISTORY", "SET_API_KEY"}

\* A variant of the save-history effect without the mid-stream test
SaveHistoryEffectAnyList(msgs, q) ==
  IF Len(msgs) > 0 /\ alive
    THEN Append(q, Request("SAVE_CHAT_HISTORY", msgs, getDomain))
    ELSE q

\* A variant of the save-history effect without the test for an empty list
SaveHistoryEffectEmptyList(msgs, q) ==
  IF ~SomeStreaming(msgs) /\ alive
    THEN Append(q, Request("SAVE_CHAT_HISTORY", msgs, getDomain))
    ELSE q

\* The save-history effect, run on the list a handler has just set
SaveHistoryEffect(msgs, q) ==
  IF Len(msgs) > 0 /\ ~SomeStreaming(msgs) /\ alive
    THEN Append(q, Request("SAVE_CHAT_HISTORY", msgs, getDomain))
    ELSE q

\* No request is on its way to the background. The service worker handles a
\* request before the content script runs its next handler: the handlers
\* below are written for the moments when nothing is in transit to it.
Quiet == bgq = <<>>

\* ----------------------------------------------------------- channels
\* The port of one chrome.runtime.connect, both ends: the listeners of the
\* content script close over assistantId; the background end runs
\* handleStreamingChat on the request.
NewPort(assistantId, request) ==
  [assistantId |-> assistantId, request |-> request,
   pc |-> "request",      \* request, storage, fetch, read, end (returned), gone
   key |-> "", model |-> "",
   remote |-> <<>>,       \* the messages of the body handed to fetch
   text |-> <<>>,         \* the whole response text of the remote
   body |-> <<>>,         \* the part of it reader.read() has not yielded yet
   buffer |-> <<>>,
   cut |-> FALSE,         \* some read has ended inside a line (history)
   posted |-> <<>>,       \* every event the background posted, in order
   queue |-> <<>>,        \* the posted events not yet delivered
   connected |-> TRUE,    \* the content script has not called port.disconnect()
   disconnected |-> FALSE \* onDisconnect has fired in the content script
  ]

\* ------------------------------------------------- handleSendMessage
\* A variant of handleSendMessage without the liveness check
handleSendMessageNoCheck(content, currentMode, t) ==
  LET messageContent == IF content # <<>> THEN content ELSE trim(input)
      userMessage == UserMessage(t, messageContent)
      assistantId == t + 1
      request == [messages |-> RoleContent(messages \o <<userMessage>>),
                  mode |-> IF currentMode # "" THEN currentMode ELSE mode,
                  context |-> selectedContext,
                  model |-> selectedModel]
  IN  /\ nsends < MaxSends
      /\ nsends' = nsends + 1
      /\ now' = t
      /\ input' = <<>>
      /\ messages' = messages \o <<userMessage, StreamingMessage(assistantId)>>
      /\ isLoading' = TRUE
      /\ ports' = Append(ports, NewPort(assistantId, request))
      /\ UNCHANGED contextInvalidated
      /\ bgq' = SaveHistoryEffect(messages', bgq)

\* handleSendMessage(content, currentMode), with <<>> and "" for an argument
\* that is not passed. It reads input, isLoading, messages, mode,
\* selectedContext and selectedModel as of the render it was created in,
\* which are the unprimed variables. t is the value of Date.now(). It sets
\* messages, input, isLoading, contextInvalidated, ports, bgq (the
\* save-history effect), now and nsends.
handleSendMessage(content, currentMode, t) ==
  LET messageContent == IF content # <<>> THEN content ELSE trim(input)
      userMessage == UserMessage(t, messageContent)
      assistantId == t + 1
      streamingMessage == StreamingMessage(assistantId)
      appended == messages \o <<userMessage, streamingMessage>>
      request == [messages |-> RoleContent(messages \o <<userMessage>>),
                  mode |-> IF currentMode # "" THEN currentMode ELSE mode,
                  context |-> selectedContext,
                  model |-> selectedModel]
  IN  /\ nsends < MaxSends
      /\ nsends' = nsends + 1
      /\ now' = t
      /\ input' = <<>>
      /\ IF ~alive
           \* throw new Error('Extension context invalidated'), and the catch
           THEN /\ contextInvalidated' = TRUE
                /\ messages' = FoldError(appended, assistantId, ReloadedError)
                /\ isLoading' = FALSE
                /\ ports' = ports
           ELSE /\ messages' = appended
                /\ isLoading' = TRUE
                /\ ports' = Append(ports, NewPort(assistantId, request))
                /\ UNCHANGED contextInvalidated
      /\ bgq' = SaveHistoryEffect(messages', bgq)

\* A variant of the guard without the busy flag
SendRejectedWhenEmpty(content) ==
  (IF content # <<>> THEN content ELSE trim(input)) = <<>>

\* A variant of the guard without the test for an empty content
SendRejectedWhenBusy(content) == isLoading

\* if (!messageContent || isLoading) return
SendRejected(content) ==
  (IF content # <<>> THEN content ELSE trim(input)) = <<>> \/ isLoading

\* What Date.now() can return: the time of the previous send or up to MaxGap
\* milliseconds later. Time is counted from the first send.
ClockValues == IF nsends = 0 THEN {now} ELSE now..(now + MaxGap)

\* What is rendered: the reload notice, the settings, or the chat
ChatShown == isOpen /\ ~contextInvalidated /\ ~showSettings
SettingsShown == isOpen /\ ~contextInvalidated /\ showSettings

\* A handler that ends in handleSendMessage(content, currentMode): the early
\* return, or the rest of it
Send(content, currentMode) ==
  IF SendRejected(content)
    THEN UNCHANGED <<messages, input, isLoading, contextInvalidated, ports, bgq, now,
                     nsends, nsteps>>
    ELSE /\ \E t \in ClockValues : handleSendMessage(content, currentMode, t)
         /\ UNCHANGED nsteps

\* The send button and Enter in the textarea (both disabled while loading)
SendTyped ==
  /\ Quiet /\ mounted /\ ChatShown /\ ~isLoading
  /\ Send(<<>>, "")
  /\ UNCHANGED <<isOpen, mode, selectedContext, hasApiKey, showSettings, selectedModel,
                 mounted, alive, store, replies>>

QUICK_ACTIONS == {"What are the key takeaways?"}

\* handleQuickAction(prompt); selectedContext.slice(0, 200) keeps the whole of
\* the short selections of the model
handleQuickAction(prompt) ==
  /\ Quiet /\ mounted /\ ChatShown
  /\ Send(IF selectedContext # <<>>
            THEN <<prompt, " for: \"">> \o selectedContext \o <<"\"">>
            ELSE <<prompt>>, "")
  /\ UNCHANGED <<isOpen, mode, selectedContext, hasApiKey, showSettings, selectedModel,
                 mounted, alive, store, replies>>

\* A variant of the prompts that leaves the selected text out
promptsWithoutText(newMode, selectedText) ==
  <<CASE newMode = "explain" -> "Please explain this:\n\n\""
      [] newMode = "quiz" -> "Create a quiz based on this:\n\n\""
      [] newMode = "summarize" -> "Summarize this:\n\n\""
      [] OTHER -> "About this:\n\n\"", "\"">>

\* prompts[newMode] of handleContextAction
prompts(newMode, selectedText) ==
  LET lead == CASE newMode = "explain" -> "Please explain this:\n\n\""
                [] newMode = "quiz" -> "Create a quiz based on this:\n\n\""
                [] newMode = "summarize" -> "Summarize this:\n\n\""
                [] OTHER -> "About this:\n\n\""
  IN  <<lead>> \o selectedText \o <<"\"">>

\* The listener of 'pagemind-context-action', registered by an effect
handleContextAction(newMode, selectedText) ==
  /\ Quiet /\ mounted
  /\ mode' = newMode
  /\ selectedContext' = selectedText
  /\ isOpen' = TRUE
  /\ IF newMode # "ask"
       THEN Send(prompts(newMode, selectedText), newMode)
       ELSE /\ nsteps < MaxSteps
            /\ nsteps' = nsteps + 1
            /\ input' = <<>>
            /\ UNCHANGED <<messages, isLoading, contextInvalidated, ports, bgq, now, nsends>>
  /\ UNCHANGED <<hasApiKey, showSettings, selectedModel, mounted, alive, store, replies>>

\* A port both ends are done with: the content script has disconnected it or
\* seen it disconnect, and handleStreamingChat has returned or is gone. It
\* takes part in nothing any more and its record is dropped.
ClosedPort ==
  [assistantId |-> 0, request |-> [messages |-> <<>>, mode |-> "", context |-> <<>>, model |-> ""],
   pc |-> "closed", key |-> "", model |-> "", remote |-> <<>>, text |-> <<>>, body |-> <<>>,
   buffer |-> <<>>, cut |-> FALSE, posted |-> <<>>, queue |-> <<>>, connected |-> FALSE, disconnected |-> FALSE]

Retire(port) ==
  IF (~port.connected \/ port.disconnected) /\ port.pc \in {"end", "gone"}
    THEN ClosedPort ELSE port

\* ------------------------------------- the listeners of the content script
\* port.onMessage listener of handleSendMessage, on the next event of port p
PortOnMessage(p) ==
  LET port == ports[p]
      chunk == Head(port.queue)
      assistantId == port.assistantId
  IN  /\ Quiet /\ port.connected /\ port.queue # <<>>
      /\ IF chunk.type = "chunk" /\ chunk.content # <<>>
           THEN /\ messages' = FoldChunk(messages, assistantId, chunk.content)
                /\ ports' = [ports EXCEPT ![p].queue = Tail(@)]
                /\ bgq' = SaveHistoryEffect(messages', bgq)
                /\ UNCHANGED <<isLoading, hasApiKey, showSettings>>
         ELSE IF chunk.type = "done"
           THEN /\ messages' = FoldDone(messages, assistantId)
                /\ isLoading' = FALSE
                /\ ports' = [ports EXCEPT ![p] =
                               Retire([@ EXCEPT !.queue = Tail(@), !.connected = FALSE])]
                /\ bgq' = SaveHistoryEffect(messages', bgq)
                /\ UNCHANGED <<hasApiKey, showSettings>>
         ELSE IF chunk.type = "error"
           THEN /\ messages' = FoldError(messages, assistantId, chunk.error)
                /\ IF IncludesApiKey(chunk.error)
                     THEN hasApiKey' = FALSE /\ showSettings' = TRUE
                     ELSE UNCHANGED <<hasApiKey, showSettings>>
                /\ isLoading' = FALSE
                /\ ports' = [ports EXCEPT ![p] =
                               Retire([@ EXCEPT !.queue = Tail(@), !.connected = FALSE])]
                /\ bgq' = SaveHistoryEffect(messages', bgq)
         ELSE /\ ports' = [ports EXCEPT ![p].queue = Tail(@)]
              /\ UNCHANGED <<messages, isLoading, hasApiKey, showSettings, bgq>>
      /\ UNCHANGED <<isOpen, mode, input, selectedContext, contextInvalidated,
                     selectedModel, mounted, alive, now, store, replies, nsends, nsteps>>

\* chrome.runtime.lastError at a disconnect or in a callback: none (""), or
\* the invalidation message once the host has invalidated the context
LastErrors == {""} \cup (IF alive THEN {} ELSE {InvalidatedError})

\* A variant of the onDisconnect listener that leaves the busy flag alone
PortOnDisconnectKeepsBusy(p) ==
  LET port == ports[p]
  IN  /\ Quiet /\ port.connected /\ ~port.disconnected
      /\ port.pc = "gone" /\ port.queue = <<>>
      /\ \E errorMsg \in LastErrors :
           contextInvalidated' = (contextInvalidated \/ IncludesInvalidated(errorMsg))
      /\ ports' = [ports EXCEPT ![p] = Retire([@ EXCEPT !.disconnected = TRUE])]
      /\ UNCHANGED <<isOpen, mode, messages, input, selectedContext, hasApiKey, isLoading,
                     showSettings, selectedModel, mounted, hostVars, nsends, nsteps>>

\* A variant of the onDisconnect listener that assigns the signal from the
\* error text instead of only raising it
PortOnDisconnectAssigns(p) ==
  LET port == ports[p]
  IN  /\ Quiet /\ port.connected /\ ~port.disconnected
      /\ port.pc = "gone" /\ port.queue = <<>>
      /\ \E errorMsg \in LastErrors :
           contextInvalidated' = IncludesInvalidated(errorMsg)
      /\ isLoading' = FALSE
      /\ ports' = [ports EXCEPT ![p] = Retire([@ EXCEPT !.disconnected = TRUE])]
      /\ UNCHANGED <<isOpen, mode, messages, input, selectedContext, hasApiKey,
                     showSettings, selectedModel, mounted, hostVars, nsends, nsteps>>

\* port.onDisconnect listener: the other end of port p has gone and every
\* event posted before has been delivered
PortOnDisconnect(p) ==
  LET port == ports[p]
  IN  /\ Quiet /\ port.connected /\ ~port.disconnected
      /\ port.pc = "gone" /\ port.queue = <<>>
      /\ \E errorMsg \in LastErrors :
           contextInvalidated' = (contextInvalidated \/ IncludesInvalidated(errorMsg))
      /\ isLoading' = FALSE
      /\ ports' = [ports EXCEPT ![p] = Retire([@ EXCEPT !.disconnected = TRUE])]
      /\ UNCHANGED <<isOpen, mode, messages, input, selectedContext, hasApiKey,
                     showSettings, selectedModel, mounted, hostVars, nsends, nsteps>>

\* ------------------------------------------------ handleStreamingChat
\* port.postMessage of each of events, then the position next. Posting on a
\* port the content script has disconnected throws; the catch block's own
\* postMessage throws again and handleStreamingChat ends.
Post(port, events, next) ==
  IF events = <<>> THEN [port EXCEPT !.pc = next]
  ELSE IF port.connected
    THEN [port EXCEPT !.posted = @ \o events, !.queue = @ \o events, !.pc = next]
    ELSE Retire([port EXCEPT !.pc = "end"])

\* A variant of StreamStart that prefers the stored model to the request's
StreamStartStoredModelFirst(p) ==
  LET port == ports[p]
      openaiApiKey == store.apiKey
      model == IF store.model # "" THEN store.model
               ELSE IF port.request.model # "" THEN port.request.model ELSE DefaultModel
  IN  /\ Quiet /\ port.pc = "request"
      /\ ports' = [ports EXCEPT ![p] =
            IF openaiApiKey = ""
              THEN Post(port, <<ErrorEvent(NoKeyError)>>, "end")
              ELSE [port EXCEPT !.pc = "fetch", !.key = openaiApiKey, !.model = model]]
      /\ UNCHANGED <<uiVars, hostVars, nsends, nsteps>>

\* A variant of StreamStart that goes on to fetch whatever the stored key is
StreamStartNoKeyCheck(p) ==
  LET port == ports[p]
  IN  /\ Quiet /\ port.pc = "request"
      /\ ports' = [ports EXCEPT ![p] =
            [port EXCEPT !.pc = "fetch", !.key = store.apiKey, !.model = port.request.model]]
      /\ UNCHANGED <<uiVars, hostVars, nsends, nsteps>>

\* systemPrompts[request.mode] || systemPrompts.ask
systemPrompts(m) ==
  CASE m = "explain" -> <<"You are a helpful learning assistant.">>
    [] m = "quiz" -> <<"You are a quiz generator.">>
    [] m = "summarize" -> <<"You are a summarization expert.">>
    [] OTHER -> <<"You are a helpful AI assistant.">>

\* The lead of the context message
ContextLead == "Context from the page:\n\n"

\* A variant of the assembly that puts the context behind the conversation
RemoteMessagesContextLast(request) ==
  <<[role |-> "system", content |-> systemPrompts(request.mode)]>>
    \o request.messages
    \o (IF request.context # <<>>
          THEN <<[role |-> "user", content |-> <<ContextLead>> \o request.context]>>
          ELSE <<>>)

\* const messages = [{role: "system", ...}, ...(request.context ? [...] : []),
\*                   ...request.messages]
RemoteMessages(request) ==
  <<[role |-> "system", content |-> systemPrompts(request.mode)]>>
    \o (IF request.context # <<>>
          THEN <<[role |-> "user", content |-> <<ContextLead>> \o request.context]>>
          ELSE <<>>)
    \o request.messages

\* The onMessage listener of the port receives STREAM_CHAT_REQUEST and
\* chrome.storage.sync.get resolves: the missing-key path, or on to fetch
StreamStart(p) ==
  LET port == ports[p]
      openaiApiKey == store.apiKey
      model == IF port.request.model # "" THEN port.request.model
               ELSE IF store.model # "" THEN store.model ELSE DefaultModel
  IN  /\ Quiet /\ port.pc = "request"
      /\ ports' = [ports EXCEPT ![p] =
            IF openaiApiKey = ""
              THEN Post(port, <<ErrorEvent(NoKeyError)>>, "end")
              ELSE [port EXCEPT !.pc = "fetch", !.key = openaiApiKey, !.model = model,
                                !.remote = RemoteMessages(port.request)]]
      /\ UNCHANGED <<uiVars, hostVars, nsends, nsteps>>

\* fetch rejects (the network fails)
StreamFetchThrows(p) ==
  /\ Quiet /\ ports[p].pc = "fetch"
  /\ ports' = [ports EXCEPT ![p] = Post(@, <<ErrorEvent(NetworkError)>>, "end")]
  /\ UNCHANGED <<uiVars, hostVars, nsends, nsteps>>

\* !response.ok: error.error?.message || 'API request failed'
StreamNotOk(p, message) ==
  /\ Quiet /\ ports[p].pc = "fetch"
  /\ ports' = [ports EXCEPT ![p] =
        Post(@, <<ErrorEvent(IF message # "" THEN message ELSE ApiFailedError)>>, "end")]
  /\ UNCHANGED <<uiVars, hostVars, nsends, nsteps>>

\* !response.ok and the body is not JSON (the page of a gateway): await
\* response.json() rejects, and the catch block posts the parser's message
StreamNotOkUnparseable(p) ==
  /\ Quiet /\ ports[p].pc = "fetch"
  /\ ports' = [ports EXCEPT ![p] = Post(@, <<ErrorEvent(JsonSyntaxError)>>, "end")]
  /\ UNCHANGED <<uiVars, hostVars, nsends, nsteps>>

\* response.body?.getReader() is undefined
StreamNoBody(p) ==
  /\ Quiet /\ ports[p].pc = "fetch"
  /\ ports' = [ports EXCEPT ![p] = Post(@, <<ErrorEvent(NoBodyError)>>, "end")]
  /\ UNCHANGED <<uiVars, hostVars, nsends, nsteps>>

\* The response is ok and has a body: text is what the remote will stream
StreamOpen(p, text) ==
  /\ Quiet /\ ports[p].pc = "fetch"
  /\ ports' = [ports EXCEPT ![p].pc = "read", ![p].text = text, ![p].body = text,
                            ![p].buffer = <<>>]
  /\ UNCHANGED <<uiVars, hostVars, nsends, nsteps>>

\* One turn of the while loop: reader.read() yields the next n bytes
ReadTurn(port, n) ==
  LET value == SubSeq(port.body, 1, n)
      fed == Feed(port.buffer, value)
      decoded == DecodeLines(fed.lines)
  IN  Post([port EXCEPT !.buffer = fed.buffer, !.body = SubSeq(@, n + 1, Len(@)),
                        !.cut = @ \/ fed.buffer # <<>>],
           decoded.events, IF decoded.return THEN "end" ELSE "read")

StreamRead(p, n) ==
  /\ Quiet /\ ports[p].pc = "read"
  /\ n \in 1..Len(ports[p].body)
  /\ ports' = [ports EXCEPT ![p] = ReadTurn(@, n)]
  /\ UNCHANGED <<uiVars, hostVars, nsends, nsteps>>

\* A variant of the end of the stream that returns without the trailing done
StreamEndSilent(p) ==
  /\ Quiet /\ ports[p].pc = "read"
  /\ ports[p].body = <<>>
  /\ ports' = [ports EXCEPT ![p].pc = "end"]
  /\ UNCHANGED <<uiVars, hostVars, nsends, nsteps>>

\* A variant of the end of the stream that decodes what the buffer holds
\* before the trailing done
StreamEndDecodesBuffer(p) ==
  LET last == DecodeLine(ports[p].buffer)
  IN  /\ Quiet /\ ports[p].pc = "read"
      /\ ports[p].body = <<>>
      /\ ports' = [ports EXCEPT ![p] =
            Post(@, IF last.return THEN last.events ELSE last.events \o <<DoneEvent>>, "end")]
      /\ UNCHANGED <<uiVars, hostVars, nsends, nsteps>>

\* reader.read() yields done: break, and the trailing done
StreamEnd(p) ==
  /\ Quiet /\ ports[p].pc = "read"
  /\ ports[p].body = <<>>
  /\ ports' = [ports EXCEPT ![p] = Post(@, <<DoneEvent>>, "end")]
  /\ UNCHANGED <<uiVars, hostVars, nsends, nsteps>>

\* reader.read() rejects: the catch block
StreamReadThrows(p) ==
  /\ Quiet /\ ports[p].pc = "read"
  /\ ports' = [ports EXCEPT ![p] = Post(@, <<ErrorEvent(NetworkError)>>, "end")]
  /\ UNCHANGED <<uiVars, hostVars, nsends, nsteps>>

\* ------------------------------------------------- the response bodies
DataLine(payload) == DataPrefix \o payload

\* The lines a response is made of: two deltas, an object without delta text,
\* an unparseable payload, the blank line between events, the termination
\* token, and a line with a marker that lacks the space
LineKinds ==
  { DataLine(<<"{", "x", "}">>), DataLine(<<"{", "y", "}">>), DataLine(<<"{", "}">>),
    DataLine(<<"{", "x">>), <<>>, DataLine(DoneToken),
    <<"d", "a", "t", "a", ":", "{", "x", "}">> }

\* The text after the last newline of a response
TailKinds == { <<>>, DataLine(DoneToken), DataLine(<<"{", "x", "}">>) }

Terminated(lines) == Flatten([i \in 1..Len(lines) |-> lines[i] \o <<NL>>])

LineSeqs == UNION { [1..k -> LineKinds] : k \in 0..MaxLines }

\* Every response text of at most MaxLines newline-terminated lines and a tail
ResponseTexts == { Terminated(ls) \o tail : ls \in LineSeqs, tail \in TailKinds }

\* The session model streams two responses: two deltas and the end of the
\* stream, and the termination token at once
SessionTexts ==
  { Terminated(<<DataLine(<<"{", "x", "}">>), DataLine(<<"{", "y", "}">>)>>),
    Terminated(<<DataLine(DoneToken)>>) }
\* and its context actions take two of the modes
SessionModes == {"explain", "ask"}

\* ------------------------------------------------------ the mount effect
\* init() of the mount effect: the liveness check, then GET_API_KEY,
\* GET_MODEL and GET_CHAT_HISTORY are sent
init ==
  /\ Quiet /\ ~mounted
  /\ mounted' = TRUE
  /\ IF ~alive
       THEN contextInvalidated' = TRUE /\ UNCHANGED bgq
       ELSE /\ bgq' = bgq \o <<Request("GET_API_KEY", <<>>, ""),
                                Request("GET_MODEL", <<>>, ""),
                                Request("GET_CHAT_HISTORY", <<>>, getDomain)>>
            /\ UNCHANGED contextInvalidated
  /\ UNCHANGED <<isOpen, mode, messages, input, isLoading, selectedContext, hasApiKey,
                 showSettings, selectedModel, alive, now, store, replies, ports,
                 nsends, nsteps>>

\* The setInterval callback of the mount effect
LivenessInterval ==
  /\ Quiet /\ mounted
  /\ contextInvalidated' = (contextInvalidated \/ ~alive)
  /\ UNCHANGED <<isOpen, mode, messages, input, isLoading, selectedContext, hasApiKey,
                 showSettings, selectedModel, mounted, hostVars, ports, nsends, nsteps>>

\* ------------------------- chrome.runtime.onMessage of the background
\* A variant of the listener whose CLEAR_CHAT_HISTORY empties the whole of
\* chrome.storage.local
BackgroundOnMessageClearsAll ==
  LET message == Head(bgq)
      domain == message.value
  IN  /\ bgq # <<>>
      /\ bgq' = Tail(bgq)
      /\ CASE message.type = "GET_API_KEY" ->
                 /\ replies' = Append(replies, Reply("GET_API_KEY", <<>>, store.apiKey))
                 /\ UNCHANGED store
            [] message.type = "SET_API_KEY" ->
                 /\ store' = [store EXCEPT !.apiKey = message.value]
                 /\ replies' = Append(replies, Reply("SET_API_KEY", <<>>, ""))
            [] message.type = "GET_MODEL" ->
                 /\ replies' = Append(replies, Reply("GET_MODEL", <<>>,
                                  IF store.model # "" THEN store.model ELSE DefaultModel))
                 /\ UNCHANGED store
            [] message.type = "SET_MODEL" ->
                 /\ store' = [store EXCEPT !.model = message.value]
                 /\ UNCHANGED replies
            [] message.type = "GET_CHAT_HISTORY" ->
                 /\ replies' = Append(replies,
                                  Reply("GET_CHAT_HISTORY", store.chat[domain].messages, ""))
                 /\ UNCHANGED store
            [] message.type = "SAVE_CHAT_HISTORY" ->
                 /\ store' = [store EXCEPT !.chat[domain] = Record(message.messages)]
                 /\ UNCHANGED replies
            [] message.type = "CLEAR_CHAT_HISTORY" ->
                 /\ store' = [store EXCEPT !.chat = [o \in Origins |-> NoRecord]]
                 /\ UNCHANGED replies
      /\ UNCHANGED <<uiVars, alive, now, ports, nsends, nsteps>>

\* A variant of the listener whose SAVE_CHAT_HISTORY adds the messages to
\* the record instead of replacing it
BackgroundOnMessageAppends ==
  LET message == Head(bgq)
      domain == message.value
  IN  /\ bgq # <<>>
      /\ bgq' = Tail(bgq)
      /\ CASE message.type = "GET_API_KEY" ->
                 /\ replies' = Append(replies, Reply("GET_API_KEY", <<>>, store.apiKey))
                 /\ UNCHANGED store
            [] message.type = "SET_API_KEY" ->
                 /\ store' = [store EXCEPT !.apiKey = message.value]
                 /\ replies' = Append(replies, Reply("SET_API_KEY", <<>>, ""))
            [] message.type = "GET_MODEL" ->
                 /\ replies' = Append(replies, Reply("GET_MODEL", <<>>,
                                  IF store.model # "" THEN store.model ELSE DefaultModel))
                 /\ UNCHANGED store
            [] message.type = "SET_MODEL" ->
                 /\ store' = [store EXCEPT !.model = message.value]
                 /\ UNCHANGED replies
            [] message.type = "GET_CHAT_HISTORY" ->
                 /\ replies' = Append(replies,
                                  Reply("GET_CHAT_HISTORY", store.chat[domain].messages, ""))
                 /\ UNCHANGED store
            [] message.type = "SAVE_CHAT_HISTORY" ->
                 /\ store' = [store EXCEPT !.chat[domain] = Record(@.messages \o message.messages)]
                 /\ UNCHANGED replies
            [] message.type = "CLEAR_CHAT_HISTORY" ->
                 /\ store' = [store EXCEPT !.chat[domain] = NoRecord]
                 /\ UNCHANGED replies
      /\ UNCHANGED <<uiVars, alive, now, ports, nsends, nsteps>>

\* The listener handles the oldest request: the storage operation and
\* sendResponse
BackgroundOnMessage ==
  LET message == Head(bgq)
      domain == message.value
  IN  /\ bgq # <<>>
      /\ bgq' = Tail(bgq)
      /\ CASE message.type = "GET_API_KEY" ->
                 /\ replies' = Append(replies, Reply("GET_API_KEY", <<>>, store.apiKey))
                 /\ UNCHANGED store
            [] message.type = "SET_API_KEY" ->
                 /\ store' = [store EXCEPT !.apiKey = message.value]
                 /\ replies' = Append(replies, Reply("SET_API_KEY", <<>>, ""))
            [] message.type = "GET_MODEL" ->
                 /\ replies' = Append(replies, Reply("GET_MODEL", <<>>,
                                  IF store.model # "" THEN store.model ELSE DefaultModel))
                 /\ UNCHANGED store
            [] message.type = "SET_MODEL" ->
                 /\ store' = [store EXCEPT !.model = message.value]
                 /\ UNCHANGED replies
            [] message.type = "GET_CHAT_HISTORY" ->
                 /\ replies' = Append(replies,
                                  Reply("GET_CHAT_HISTORY", store.chat[domain].messages, ""))
                 /\ UNCHANGED store
            [] message.type = "SAVE_CHAT_HISTORY" ->
                 /\ store' = [store EXCEPT !.chat[domain] = Record(message.messages)]
                 /\ UNCHANGED replies
            [] message.type = "CLEAR_CHAT_HISTORY" ->
                 /\ store' = [store EXCEPT !.chat[domain] = NoRecord]
                 /\ UNCHANGED replies
      /\ UNCHANGED <<uiVars, alive, now, ports, nsends, nsteps>>

\* ------------------- the sendMessage callbacks of the content script
Callback ==
  LET response == Head(replies)
  IN  /\ Quiet /\ replies # <<>>
      /\ replies' = Tail(replies)
      /\ CASE response.type = "GET_API_KEY" ->
                 IF response.failed
                   THEN /\ \E errorMsg \in LastErrors :
                             contextInvalidated' =
                               (contextInvalidated \/ IncludesInvalidated(errorMsg))
                        /\ UNCHANGED <<hasApiKey, showSettings, selectedModel, messages, bgq>>
                 ELSE IF response.value = ""
                   THEN /\ hasApiKey' = FALSE /\ showSettings' = TRUE
                        /\ UNCHANGED <<contextInvalidated, selectedModel, messages, bgq>>
                 ELSE UNCHANGED <<contextInvalidated, hasApiKey, showSettings, selectedModel,
                                  messages, bgq>>
            [] response.type = "GET_MODEL" ->
                 /\ selectedModel' = IF ~response.failed /\ response.value # ""
                                       THEN response.value ELSE selectedModel
                 /\ UNCHANGED <<contextInvalidated, hasApiKey, showSettings, messages, bgq>>
            [] response.type = "GET_CHAT_HISTORY" ->
                 /\ IF ~response.failed /\ Len(response.messages) > 0
                      THEN /\ messages' = response.messages
                           /\ bgq' = SaveHistoryEffect(messages', bgq)
                      ELSE UNCHANGED <<messages, bgq>>
                 /\ UNCHANGED <<contextInvalidated, hasApiKey, showSettings, selectedModel>>
            [] response.type = "SET_API_KEY" ->
                 IF response.failed
                   THEN /\ \E errorMsg \in LastErrors :
                             contextInvalidated' =
                               (contextInvalidated \/ IncludesInvalidated(errorMsg))
                        /\ UNCHANGED <<hasApiKey, showSettings, selectedModel, messages, bgq>>
                   ELSE /\ hasApiKey' = TRUE /\ showSettings' = FALSE
                        /\ UNCHANGED <<contextInvalidated, selectedModel, messages, bgq>>
      /\ UNCHANGED <<isOpen, mode, input, isLoading, selectedContext, mounted, alive, now,
                     store, ports, nsends, nsteps>>

\* ------------------------------------------------- the panel's handlers
\* handleToggle ('pagemind-toggle') and the close button
handleToggle ==
  /\ Quiet /\ mounted /\ nsteps < MaxSteps
  /\ isOpen' = ~isOpen
  /\ nsteps' = nsteps + 1
  /\ UNCHANGED <<mode, messages, input, isLoading, selectedContext, hasApiKey,
                 showSettings, contextInvalidated, selectedModel, mounted, hostVars,
                 ports, nsends>>

\* onClick={() => setMode(key)}
setMode(key) ==
  /\ Quiet /\ mounted /\ ChatShown /\ nsteps < MaxSteps
  /\ mode' = key
  /\ nsteps' = nsteps + 1
  /\ UNCHANGED <<isOpen, messages, input, isLoading, selectedContext, hasApiKey,
                 showSettings, contextInvalidated, selectedModel, mounted, hostVars,
                 ports, nsends>>

\* onChange of the textarea, which is disabled while loading
setInput(value) ==
  /\ Quiet /\ mounted /\ ChatShown /\ ~isLoading /\ nsteps < MaxSteps
  /\ input' = value
  /\ nsteps' = nsteps + 1
  /\ UNCHANGED <<isOpen, mode, messages, isLoading, selectedContext, hasApiKey,
                 showSettings, contextInvalidated, selectedModel, mounted, hostVars,
                 ports, nsends>>

\* The button of the context strip: setSelectedContext('')
clearContext ==
  /\ Quiet /\ mounted /\ ChatShown /\ selectedContext # <<>> /\ nsteps < MaxSteps
  /\ selectedContext' = <<>>
  /\ nsteps' = nsteps + 1
  /\ UNCHANGED <<isOpen, mode, messages, input, isLoading, hasApiKey, showSettings,
                 contextInvalidated, selectedModel, mounted, hostVars, ports, nsends>>

\* toggleSettings with a release of the busy flag it does not have
toggleSettingsReleasesBusy ==
  /\ Quiet /\ mounted /\ isOpen /\ nsteps < MaxSteps
  /\ showSettings' = ~showSettings
  /\ isLoading' = FALSE
  /\ nsteps' = nsteps + 1
  /\ UNCHANGED <<isOpen, mode, messages, input, selectedContext, hasApiKey,
                 contextInvalidated, selectedModel, mounted, hostVars, ports, nsends>>

\* The settings button of the header: setShowSettings(!showSettings)
toggleSettings ==
  /\ Quiet /\ mounted /\ isOpen /\ nsteps < MaxSteps
  /\ showSettings' = ~showSettings
  /\ nsteps' = nsteps + 1
  /\ UNCHANGED <<isOpen, mode, messages, input, isLoading, selectedContext, hasApiKey,
                 contextInvalidated, selectedModel, mounted, hostVars, ports, nsends>>

\* handleModelChange(model)
handleModelChange(model) ==
  /\ Quiet /\ mounted /\ SettingsShown /\ nsteps < MaxSteps
  /\ selectedModel' = model
  /\ bgq' = IF alive THEN Append(bgq, Request("SET_MODEL", <<>>, model)) ELSE bgq
  /\ nsteps' = nsteps + 1
  /\ UNCHANGED <<isOpen, mode, messages, input, isLoading, selectedContext, hasApiKey,
                 showSettings, contextInvalidated, mounted, alive, now, store, replies,
                 ports, nsends>>

\* A variant of handleSaveApiKey that returns from a dead context silently
handleSaveApiKeySilent(apiKey) ==
  /\ Quiet /\ mounted /\ SettingsShown /\ nsteps < MaxSteps
  /\ bgq' = IF alive THEN Append(bgq, Request("SET_API_KEY", <<>>, apiKey)) ELSE bgq
  /\ nsteps' = nsteps + 1
  /\ UNCHANGED <<isOpen, mode, messages, input, isLoading, selectedContext, hasApiKey,
                 showSettings, contextInvalidated, selectedModel, mounted, alive, now,
                 store, replies, ports, nsends>>

\* handleSaveApiKey with apiKeyInput.trim() = apiKey, not empty
handleSaveApiKey(apiKey) ==
  /\ Quiet /\ mounted /\ SettingsShown /\ nsteps < MaxSteps
  /\ IF ~alive
       THEN contextInvalidated' = TRUE /\ UNCHANGED bgq
       ELSE /\ bgq' = Append(bgq, Request("SET_API_KEY", <<>>, apiKey))
            /\ UNCHANGED contextInvalidated
  /\ nsteps' = nsteps + 1
  /\ UNCHANGED <<isOpen, mode, messages, input, isLoading, selectedContext, hasApiKey,
                 showSettings, selectedModel, mounted, alive, now, store, replies,
                 ports, nsends>>

\* A variant of handleClearChat that empties the panel and sends nothing
handleClearChatLocalOnly ==
  /\ Quiet /\ mounted /\ ChatShown /\ Len(messages) > 0
  /\ messages' = <<>>
  /\ selectedContext' = <<>>
  /\ UNCHANGED <<isOpen, mode, input, isLoading, hasApiKey, showSettings,
                 contextInvalidated, selectedModel, mounted, alive, now, store, replies,
                 ports, nsends, nsteps, bgq>>

\* handleClearChat; the button is rendered when messages.length > 0
handleClearChat ==
  /\ Quiet /\ mounted /\ ChatShown /\ Len(messages) > 0
  /\ messages' = <<>>
  /\ selectedContext' = <<>>
  /\ bgq' = IF alive THEN Append(bgq, Request("CLEAR_CHAT_HISTORY", <<>>, getDomain))
             ELSE bgq
  /\ UNCHANGED <<isOpen, mode, input, isLoading, hasApiKey, showSettings,
                 contextInvalidated, selectedModel, mounted, alive, now, store, replies,
                 ports, nsends, nsteps>>

\* ----------------------------------------------------------- the host
\* The background end of a port goes away
Gone(port) ==
  IF port.pc \in {"gone", "closed"} THEN port ELSE Retire([port EXCEPT !.pc = "gone"])

\* The host stops the service worker: its ports go away, and a later
\* message starts it again
WorkerStops ==
  /\ Quiet
  /\ \E p \in 1..Len(ports) : ports[p].pc \notin {"gone", "closed"}
  /\ ports' = [p \in 1..Len(ports) |-> Gone(ports[p])]
  /\ UNCHANGED <<uiVars, hostVars, nsends, nsteps>>

\* The extension is reloaded or updated: chrome.runtime.id of this content
\* script is undefined from now on, its ports go away, its requests are lost
\* and its pending callbacks can only run with lastError set
ContextInvalidates ==
  /\ alive
  /\ alive' = FALSE
  /\ ports' = [p \in 1..Len(ports) |-> Gone(ports[p])]
  /\ bgq' = <<>>
  /\ replies' = [i \in 1..Len(replies) |-> FailedReply(replies[i].type)]
                 \o SelectSeq([i \in 1..Len(bgq) |-> FailedReply(bgq[i].type)],
                              LAMBDA r : HasCallback(r.type))
  /\ UNCHANGED <<uiVars, now, store, nsends, nsteps>>

\* ------------------------------------------------- the session model
StoredHistory ==
  << UserMessage(0, <<"old">>),
     [id |-> 1, role |-> "assistant", content |-> <<"x">>, isStreaming |-> FALSE] >>

Init ==
  /\ isOpen = FALSE /\ mode = "ask" /\ messages = <<>> /\ input = <<>>
  /\ isLoading = FALSE /\ selectedContext = <<>> /\ hasApiKey = TRUE
  /\ showSettings = FALSE /\ contextInvalidated = FALSE
  /\ selectedModel = DefaultModel
  /\ mounted = FALSE
  /\ alive = TRUE
  /\ now = 2
  /\ store \in [chat : {[o \in Origins |-> IF o = getDomain THEN r ELSE Record(StoredHistory)] :
                            r \in {NoRecord, Record(StoredHistory)}},
                 apiKey : {""} \cup ApiKeys,
                 model : {DefaultModel}]
  /\ bgq = <<>> /\ replies = <<>>
  /\ ports = <<>>
  /\ nsends = 0 /\ nsteps = 0

Next ==
  \/ init
  \/ LivenessInterval
  \/ SendTyped
  \/ \E prompt \in QUICK_ACTIONS : handleQuickAction(prompt)
  \/ \E m \in SessionModes, s \in SelectedTexts : handleContextAction(m, s)
  \/ handleToggle
  \/ \E m \in SessionModes : setMode(m)
  \/ \E v \in InputValues : setInput(v)
  \/ clearContext
  \/ toggleSettings
  \/ \E m \in Models : handleModelChange(m)
  \/ \E k \in ApiKeys : handleSaveApiKey(k)
  \/ handleClearChat
  \/ \E p \in 1..Len(ports) : PortOnMessage(p)
  \/ \E p \in 1..Len(ports) : PortOnDisconnect(p)
  \/ BackgroundOnMessage
  \/ Callback
  \/ \E p \in 1..Len(ports) : StreamStart(p)
  \/ \E p \in 1..Len(ports) : StreamNotOk(p, "")
  \/ \E p \in 1..Len(ports), text \in SessionTexts : StreamOpen(p, text)
  \/ \E p \in 1..Len(ports) : StreamRead(p, Len(ports[p].body))
  \/ \E p \in 1..Len(ports) : StreamEnd(p)
  \/ \E p \in 1..Len(ports) : StreamReadThrows(p)
  \/ WorkerStops
  \/ ContextInvalidates

Spec == Init /\ [][Next]_vars

\* ------------------------------------------------ the context model
\* The panel is mounted, the three requests of init have been handled and
\* their callbacks have not run yet. Context actions of every mode arrive,
\* on two selections.
ContextTexts == {<<"s">>, <<"t", "\"">>}

ContextInit ==
  /\ isOpen = FALSE /\ mode = "ask" /\ messages = <<>> /\ input = <<>>
  /\ isLoading = FALSE /\ selectedContext = <<>> /\ hasApiKey = TRUE
  /\ showSettings = FALSE /\ contextInvalidated = FALSE
  /\ selectedModel = DefaultModel
  /\ mounted = TRUE
  /\ alive = TRUE
  /\ now = 2
  /\ store \in [chat : {[o \in Origins |-> IF o = getDomain THEN NoRecord
                                           ELSE Record(StoredHistory)]},
                 apiKey : {""} \cup ApiKeys,
                 model : {DefaultModel}]
  /\ bgq = <<>>
  /\ replies = <<Reply("GET_API_KEY", <<>>, store.apiKey),
                 Reply("GET_MODEL", <<>>, DefaultModel),
                 Reply("GET_CHAT_HISTORY", <<>>, "")>>
  /\ ports = <<>>
  /\ nsends = 0 /\ nsteps = 0

ContextNext ==
  \/ \E m \in Modes, s \in ContextTexts : handleContextAction(m, s)
  \/ Callback

ContextSpec == ContextInit /\ [][ContextNext]_vars

\* ------------------------------------------------- the stream model
\* One request in the hands of the background: the state of the context
\* model after the context action 'explain' on the selection <<"s">>. The
\* remote answers in every way and streams every response text, cut at any
\* offsets. The content script does not take the events off the channel, so
\* the channel stays open and keeps all that was posted.
StreamRequest ==
  [messages |-> RoleContent(<<UserMessage(2, prompts("explain", <<"s">>))>>),
   mode |-> "explain", context |-> <<>>, model |-> DefaultModel]

StreamInit ==
  /\ isOpen = TRUE /\ mode = "explain" /\ input = <<>>
  /\ messages = <<UserMessage(2, prompts("explain", <<"s">>)), StreamingMessage(3)>>
  /\ isLoading = TRUE /\ selectedContext = <<"s">> /\ hasApiKey = TRUE
  /\ showSettings = FALSE /\ contextInvalidated = FALSE
  /\ selectedModel = DefaultModel
  /\ mounted = TRUE
  /\ alive = TRUE
  /\ now = 2
  /\ store \in [chat : {[o \in Origins |-> IF o = getDomain THEN NoRecord
                                           ELSE Record(StoredHistory)]},
                 apiKey : {""} \cup ApiKeys,
                 model : {DefaultModel}]
  /\ bgq = <<>>
  /\ replies = <<Reply("GET_API_KEY", <<>>, store.apiKey),
                 Reply("GET_MODEL", <<>>, DefaultModel),
                 Reply("GET_CHAT_HISTORY", <<>>, "")>>
  /\ ports = <<NewPort(3, StreamRequest)>>
  /\ nsends = 1 /\ nsteps = 0

StreamNext ==
  \/ StreamStart(1)
  \/ StreamFetchThrows(1)
  \/ \E e \in RemoteErrors : StreamNotOk(1, e)
  \/ StreamNotOkUnparseable(1)
  \/ StreamNoBody(1)
  \/ \E text \in ResponseTexts : StreamOpen(1, text)
  \/ \E n \in 1..Len(ports[1].body) : StreamRead(1, n)
  \/ StreamEnd(1)
  \/ StreamReadThrows(1)

StreamSpec == StreamInit /\ [][StreamNext]_vars

\* ============================================================ properties
\* The text of the chunk events of a sequence of events, in order
RECURSIVE ChunkText(_)
ChunkText(events) ==
  IF events = <<>> THEN <<>>
  ELSE (IF Head(events).type = "chunk" THEN Head(events).content ELSE <<>>)
       \o ChunkText(Tail(events))

\* The step in which the onMessage listener of port p takes a done event
DoneFolded(p) ==
  /\ ports[p].connected /\ ports[p].queue # <<>>
  /\ Head(ports[p].queue).type = "done"
  /\ ~ports'[p].connected

\* The assistant messages of msgs with the id a; the one a send created is
\* the last of them
WithId(msgs, a) == {i \in 1..Len(msgs) : msgs[i].id = a /\ msgs[i].role = "assistant"}
Newest(I) == CHOOSE i \in I : \A j \in I : j <= i

\* C1 (as amended): when the done event of a send is folded and the
\* placeholder of that send is still in the message list, the placeholder is
\* settled and its content is the concatenation, in the order posted, of the
\* chunk texts the channel delivered.
ChunksFoldInOrder ==
  [][\A p \in 1..Len(ports) : DoneFolded(p) =>
        LET I == WithId(messages', ports[p].assistantId)
        IN  I # {} =>
              /\ ~messages'[Newest(I)].isStreaming
              /\ messages'[Newest(I)].content = ChunkText(ports[p].posted)]_vars

\* C1, witness: an assistant message created by a send is settled with the
\* two chunk texts in the order the remote produced them
WitnessChunksFolded ==
  \E i \in 1..Len(messages) :
     /\ messages[i].role = "assistant" /\ messages[i].id > 1
     /\ ~messages[i].isStreaming /\ messages[i].content = <<"x", "y">>

\* C1 as stated: every send whose channel delivers chunks and then done has
\* its assistant message in the list, settled, with the concatenated text,
\* when done is folded.
EverySendEndsSettled ==
  [][\A p \in 1..Len(ports) : DoneFolded(p) =>
        \E i \in WithId(messages', ports[p].assistantId) :
           /\ ~messages'[i].isStreaming
           /\ messages'[i].content = ChunkText(ports[p].posted)]_vars

\* The step in which the onDisconnect listener of port p runs: the channel
\* closes without a terminal event
ClosureSeen(p) ==
  /\ ports[p].connected /\ ports[p].pc = "gone" /\ ports[p].queue = <<>>
  /\ ports'[p].pc = "closed"

\* C2 as stated: when the channel of a send ends, by a terminal event or by
\* closure, the placeholder of that send is not left with isStreaming=true.
\* The closure half: after the onDisconnect listener has run, no message with
\* the id of the placeholder is streaming.
ClosureSettlesPlaceholder ==
  [][\A p \in 1..Len(ports) : ClosureSeen(p) =>
        \A i \in WithId(messages', ports[p].assistantId) : ~messages'[i].isStreaming]_vars

\* C2, the state the closure leaves: the service worker has stopped, the
\* onDisconnect listener has run and released the busy flag, the context is
\* alive, and the placeholder is still streaming with no channel left
WitnessPlaceholderLeftStreaming ==
  /\ alive /\ ~isLoading /\ nsends = 1
  /\ Len(ports) = 1 /\ ports[1].pc = "closed"
  /\ Len(messages) = 2 /\ messages[2].isStreaming

\* C3: no durable record chat_<origin> holds a message with isStreaming=true,
\* and no SAVE_CHAT_HISTORY on its way carries one.
PersistenceExclusion ==
  /\ \A o \in Origins : ~SomeStreaming(store.chat[o].messages)
  /\ \A i \in 1..Len(bgq) :
        bgq[i].type = "SAVE_CHAT_HISTORY" => ~SomeStreaming(bgq[i].messages)

\* C3, witness: the record of the origin holds an exchange of this session
\* while a later message is streaming
WitnessSavedWhileStreaming ==
  /\ SomeStreaming(messages)
  /\ \E i \in 1..Len(store.chat[getDomain].messages) :
        store.chat[getDomain].messages[i].id > 1

\* messages' is messages with a user message and a placeholder appended, the
\* placeholder streaming or settled at once by the failed liveness check
PairAppended ==
  /\ Len(messages') = Len(messages) + 2
  /\ SubSeq(messages', 1, Len(messages)) = messages
  /\ messages'[Len(messages) + 1].role = "user"
  /\ messages'[Len(messages) + 2].role = "assistant"
  /\ \/ messages'[Len(messages) + 2].isStreaming
     \/ messages'[Len(messages) + 2].content = <<ErrorPrefix, ReloadedError>>

\* The requests the background is working on
InFlight(ps) == {p \in 1..Len(ps) : ps[p].pc \in {"request", "fetch", "read"}}

\* C4: while isLoading is set no step accepts a send, opens a channel or
\* appends a user/placeholder pair, and a rejected send leaves nothing behind
\* to run later (no request, no reply); at most one request is in flight.
BusyRejectsSend ==
  [][/\ isLoading => /\ nsends' = nsends /\ Len(ports') = Len(ports)
                     /\ ~PairAppended
     /\ Cardinality(InFlight(ports')) <= 1]_vars

\* C4, witness: a quick action was sent in mode 'ask' and, while it is in
\* flight, a context action 'explain' has been received and rejected
WitnessRejectedWhileBusy ==
  /\ isLoading /\ nsends = 1 /\ nsteps = 1 /\ Len(ports) = 1
  /\ ports[1].pc = "read" /\ ports[1].request.mode = "ask"
  /\ ports[1].request.context = <<>>
  /\ mode = "explain" /\ selectedContext = <<"s">>
  /\ Len(messages) = 2

\* C5: once contextInvalidated is true no step sets it back to false.
InvalidationMonotone == [][contextInvalidated => contextInvalidated']_vars

\* C5, witness: the signal is set and, the context gone, a disconnect has
\* been handled and a send has failed at the liveness check
WitnessInvalidatedStays ==
  /\ contextInvalidated /\ ~alive /\ nsends = 2
  /\ Len(ports) = 1 /\ ports[1].pc = "closed"
  /\ ~isLoading

\* C6: once contextInvalidated is set no step opens a channel; a send that
\* gets to the liveness check ends at once in the error-settled placeholder
\* with the busy flag released.
NoChannelAfterInvalidation ==
  [][contextInvalidated =>
       /\ Len(ports') = Len(ports)
       /\ nsends' # nsends =>
            /\ ~isLoading'
            /\ Last(messages') = [id |-> now' + 1, role |-> "assistant",
                                  content |-> <<ErrorPrefix, ReloadedError>>,
                                  isStreaming |-> FALSE]]_vars

\* C6, witness: two sends have reached the liveness check and no channel was
\* opened; the second came after the first had set the signal
WitnessSendAfterInvalidation ==
  /\ contextInvalidated /\ nsends = 2 /\ ports = <<>>
  /\ Len(messages) >= 4

\* The events of a response text delivered in one piece: one read, then the
\* end of the stream
OnePiece(text) ==
  LET decoded == DecodeLines(Feed(<<>>, text).lines)
  IN  IF decoded.return THEN decoded.events ELSE decoded.events \o <<DoneEvent>>

NewlineTerminated(text) == text = <<>> \/ Last(text) = NL

\* handleStreamingChat has returned from the read loop without a throw
ReadToEnd(port) ==
  port.pc = "end" /\ port.posted # <<>> /\ Last(port.posted).type = "done"
  /\ port.key # ""

\* C7: a response text of newline-terminated lines, read in pieces cut at
\* any offsets, posts the same events as the text read in one piece.
SplitInvariance ==
  \A p \in 1..Len(ports) :
     ReadToEnd(ports[p]) /\ NewlineTerminated(ports[p].text) =>
        ports[p].posted = OnePiece(ports[p].text)

\* C7, witness: a text of two data lines and the termination line was read
\* in pieces, one of which ended inside a line
WitnessSplitInsideLine ==
  /\ ReadToEnd(ports[1]) /\ ports[1].cut /\ NewlineTerminated(ports[1].text)
  /\ ports[1].posted = <<ChunkEvent(<<"x">>), ChunkEvent(<<"y">>), DoneEvent>>

\* No complete line of text is the termination line
NoDoneLine(text) ==
  \A i \in 1..(Len(SplitNL(text)) - 1) : SplitNL(text)[i] # DataPrefix \o DoneToken

\* reader.read() has yielded done: the whole of a text without termination
\* line was read and the loop was left by break
StreamEnded(port) ==
  /\ port.pc = "end" /\ port.key # "" /\ port.body = <<>>
  /\ NoDoneLine(port.text)
  /\ ~(port.posted # <<>> /\ Last(port.posted).type = "error")

\* C8: when the stream ends and no line 'data: [DONE]' was seen, the events
\* posted are the chunks and then exactly one done.
TrailingDone ==
  \A p \in 1..Len(ports) :
     StreamEnded(ports[p]) =>
        /\ ports[p].posted # <<>>
        /\ Last(ports[p].posted) = DoneEvent
        /\ \A i \in 1..(Len(ports[p].posted) - 1) : ports[p].posted[i].type = "chunk"

\* C8, witness: a stream of two deltas without termination line has ended
WitnessEndWithoutToken ==
  /\ StreamEnded(ports[1])
  /\ ports[1].posted = <<ChunkEvent(<<"x">>), ChunkEvent(<<"x">>), DoneEvent>>

\* C9: on an open channel, what handleStreamingChat has posted is chunks
\* only while it runs, and chunks followed by exactly one terminal event once
\* it has returned.
OneTerminalEvent ==
  \A p \in 1..Len(ports) :
     ports[p].connected /\ ports[p].pc \in {"request", "fetch", "read", "end"} =>
        LET posted == ports[p].posted
        IN  /\ \A i \in 1..(Len(posted) - 1) : posted[i].type = "chunk"
            /\ IF ports[p].pc = "end"
                 THEN posted # <<>> /\ IsTerminal(Last(posted))
                 ELSE posted = <<>> \/ Last(posted).type = "chunk"

\* C9, witness: reader.read() has thrown after a chunk was posted, and the
\* channel holds the chunk and the one error event
WitnessChunkThenError ==
  /\ ports[1].connected /\ ports[1].pc = "end"
  /\ ports[1].posted = <<ChunkEvent(<<"y">>), ErrorEvent(NetworkError)>>

\* s occurs in content as a run of consecutive pieces
Contains(content, s) ==
  \E i \in 0..(Len(content) - Len(s)) : SubSeq(content, i + 1, i + Len(s)) = s

\* C10: a context action of a mode other than 'ask', received while not
\* busy, sends at once: the user message is a prompt that contains the
\* selected text verbatim and differs from the prompts of the other modes,
\* and the request carries the mode of the action; a context action 'ask'
\* sends nothing, opens the panel and clears the input.
ModeTemplating ==
  [][(mode' # mode \/ selectedContext' # selectedContext \/ nsends' # nsends
        \/ nsteps' # nsteps) =>
       IF mode' # "ask"
         THEN ~isLoading =>
                /\ nsends' = nsends + 1 /\ isOpen'
                /\ messages'[Len(messages') - 1].role = "user"
                /\ Contains(messages'[Len(messages') - 1].content, selectedContext')
                /\ \A m \in Modes \ {mode'} :
                      messages'[Len(messages') - 1].content # prompts(m, selectedContext')
                /\ Last(messages').isStreaming
                /\ Last(ports').request.mode = mode'
                /\ Last(Last(ports').request.messages).content
                     = messages'[Len(messages') - 1].content
         ELSE /\ nsends' = nsends /\ ports' = ports /\ messages' = messages
              /\ bgq' = bgq /\ isLoading' = isLoading
              /\ isOpen' /\ input' = <<>>]_vars

\* C10, witness: a context action 'summarize' on the second selection has
\* sent its prompt
WitnessSummarizeSent ==
  /\ mode = "summarize" /\ selectedContext = <<"t", "\"">> /\ nsteps = 0
  /\ Len(ports) = 1 /\ ports[1].request.mode = "summarize"
  /\ Len(messages) = 2 /\ Contains(messages[1].content, <<"t", "\"">>)

\* C11 as stated: in the step in which the onDisconnect listener runs for a
\* port that closed before any done or error event was received, the busy
\* flag is released and the placeholder of that send is settled with an
\* error-formatted content.
ClosureIsImplicitError ==
  [][\A p \in 1..Len(ports) : ClosureSeen(p) =>
        /\ ~isLoading'
        /\ \A i \in WithId(messages', ports[p].assistantId) :
              /\ ~messages'[i].isStreaming
              /\ Len(messages'[i].content) = 2
              /\ messages'[i].content[1] = ErrorPrefix]_vars

\* C11, the state the closure leaves: two chunks were folded, the service
\* worker stopped, the onDisconnect listener ran, and the placeholder keeps
\* the partial text and isStreaming=true
WitnessPartialTextLeftStreaming ==
  /\ ~isLoading /\ nsends = 1 /\ Len(ports) = 1 /\ ports[1].pc = "closed"
  /\ Len(messages) = 2 /\ messages[2].isStreaming
  /\ messages[2].content = <<"x", "y">>

\* ------------------------------------------------- the setup model
\* messages of an Error thrown by chrome.runtime.connect or port.postMessage
ThrownErrors == {"Extension context invalidated.", "Attempting to use a disconnected port object"}

\* error.message.includes('Extension context invalidated') on these messages
ThrownIncludesInvalidated(e) == e = "Extension context invalidated."

\* The catch block of handleSendMessage: the message shown for the caught error
errorMessage(error) ==
  IF ThrownIncludesInvalidated(error) THEN ReloadedError ELSE error

\* handleSendMessage(content, currentMode) on the path on which the liveness
\* check passes and connect or postMessage throws Error(error): the pair is
\* appended, the catch block settles the placeholder and releases the busy
\* flag; no request has been posted.
handleSendMessageThrown(content, currentMode, t, error) ==
  LET messageContent == IF content # <<>> THEN content ELSE trim(input)
      userMessage == UserMessage(t, messageContent)
      assistantId == t + 1
      appended == messages \o <<userMessage, StreamingMessage(assistantId)>>
  IN  /\ alive
      /\ nsends < MaxSends
      /\ nsends' = nsends + 1
      /\ now' = t
      /\ input' = <<>>
      /\ contextInvalidated' = (contextInvalidated \/ ThrownIncludesInvalidated(error))
      /\ messages' = FoldError(appended, assistantId, errorMessage(error))
      /\ isLoading' = FALSE
      /\ ports' = ports
      /\ bgq' = SaveHistoryEffect(messages', bgq)

\* A context action of a mode other than 'ask' whose send is accepted and
\* throws while the request is set up
ContextActionThrown(newMode, selectedText, error) ==
  /\ Quiet /\ mounted /\ newMode # "ask"
  /\ ~SendRejected(prompts(newMode, selectedText))
  /\ mode' = newMode
  /\ selectedContext' = selectedText
  /\ isOpen' = TRUE
  /\ \E t \in ClockValues :
        handleSendMessageThrown(prompts(newMode, selectedText), newMode, t, error)
  /\ UNCHANGED <<hasApiKey, showSettings, selectedModel, mounted, alive, store, replies,
                 nsteps>>

\* The panel is mounted and idle as in the context model; context actions
\* arrive whose sends go through, fail the liveness check, or throw in
\* connect or postMessage; the host invalidates the context at any moment.
SetupNext ==
  \/ \E m \in SessionModes, s \in SelectedTexts : handleContextAction(m, s)
  \/ \E m \in SessionModes, s \in SelectedTexts, e \in ThrownErrors :
        ContextActionThrown(m, s, e)
  \/ Callback
  \/ BackgroundOnMessage
  \/ LivenessInterval
  \/ ContextInvalidates

SetupSpec == ContextInit /\ [][SetupNext]_vars

\* The step of an accepted send that posts no request: an exception was
\* raised while the request was set up
SetupFailed == nsends' = nsends + 1 /\ Len(ports') = Len(ports)

\* C12: a send whose setup raises an exception (the liveness check fails,
\* connect throws, postMessage throws) ends with the busy flag released and
\* its placeholder, the last message, settled with an error-formatted
\* content, directly after its user message; no message of that send is
\* streaming.
SetupExceptionSettles ==
  [][SetupFailed =>
       LET n == Len(messages')
       IN  /\ ~isLoading'
           /\ n = Len(messages) + 2
           /\ messages'[n - 1].role = "user" /\ messages'[n - 1].id = now'
           /\ messages'[n].role = "assistant" /\ messages'[n].id = now' + 1
           /\ ~messages'[n].isStreaming
           /\ Len(messages'[n].content) = 2 /\ messages'[n].content[1] = ErrorPrefix
           /\ messages'[n].content[2] \in {ReloadedError} \cup ThrownErrors
           /\ \A i \in 1..n : messages'[i].id = now' + 1 => ~messages'[i].isStreaming]_vars

\* C12, witness: one send has failed the liveness check and one has thrown
\* in connect or postMessage with another message
WitnessSetupExceptions ==
  /\ nsends = 2 /\ ports = <<>> /\ Len(messages) = 4 /\ ~isLoading
  /\ messages[2].content = <<ErrorPrefix, "Attempting to use a disconnected port object">>
  /\ messages[4].content = <<ErrorPrefix, ReloadedError>>
  /\ ~alive

\* The message at position i before a step and after it is the same message
SameMessage(i) ==
  /\ i <= Len(messages')
  /\ messages'[i].id = messages[i].id
  /\ messages'[i].role = messages[i].role

\* C13 as stated: the content of an assistant message changes only in a step
\* that finds it streaming, a settled assistant message never streams again,
\* and the content of a user message never changes.
MutationDiscipline ==
  [][\A i \in 1..Len(messages) : SameMessage(i) =>
        /\ messages[i].role = "user" => messages'[i].content = messages[i].content
        /\ messages[i].role = "assistant" =>
              /\ messages'[i].content # messages[i].content => messages[i].isStreaming
              /\ ~messages[i].isStreaming => ~messages'[i].isStreaming]_vars

\* Two sends got the same Date.now(): the first reply is settled, the second
\* placeholder carries its id, and a chunk of the second reply has been folded
\* into both
WitnessChunkFoldedIntoSettled ==
  /\ Len(messages) = 4 /\ nsends = 2
  /\ messages[2].id = messages[4].id
  /\ messages[2].role = "assistant" /\ ~messages[2].isStreaming
  /\ messages[4].isStreaming /\ messages[4].content # <<>>
  /\ Len(messages[2].content) >= Len(messages[4].content)

\* What the send of a step was called with, for each handler that sends
SendOf(content) ==
  \/ content = trim(input) /\ SendTyped
  \/ \E prompt \in QUICK_ACTIONS :
        /\ content = (IF selectedContext # <<>>
                        THEN <<prompt, " for: \"">> \o selectedContext \o <<"\"">>
                        ELSE <<prompt>>)
        /\ handleQuickAction(prompt)
  \/ \E m \in SessionModes, s \in SelectedTexts :
        content = prompts(m, s) /\ handleContextAction(m, s)

SentContents ==
  {trim(input)}
    \cup {<<prompt>> : prompt \in QUICK_ACTIONS}
    \cup {<<prompt, " for: \"">> \o selectedContext \o <<"\"">> : prompt \in QUICK_ACTIONS}
    \cup {prompts(m, s) : m \in SessionModes, s \in SelectedTexts}

\* An accepted send of content: the list has grown by two, the messages before
\* are in place, and the last but one is the user message of the send
UserMessageAppended(content) ==
  /\ nsends' = nsends + 1
  /\ SendOf(content)

AppendedInOrder(content) ==
  /\ Len(messages') = Len(messages) + 2
  /\ \A i \in 1..Len(messages) : SameMessage(i)
  /\ messages'[Len(messages) + 1] =
        [id |-> now', role |-> "user", content |-> content, isStreaming |-> FALSE]
  /\ messages'[Len(messages) + 2].id = now' + 1
  /\ messages'[Len(messages) + 2].role = "assistant"

\* Every user message of the list has an assistant message directly after it,
\* the one that was created with it
PairsInList(msgs) ==
  \A i \in 1..Len(msgs) : msgs[i].role = "user" =>
     /\ i < Len(msgs)
     /\ msgs[i + 1].role = "assistant"
     /\ msgs[i + 1].id = msgs[i].id + 1

SettledStep ==
  \E i \in 1..Len(messages) :
     /\ SameMessage(i)
     /\ messages[i].role = "assistant"
     /\ messages[i].isStreaming /\ ~messages'[i].isStreaming

\* C15 as stated: a step that settles a streaming assistant message while the
\* host context is alive issues a SAVE_CHAT_HISTORY for the origin key with
\* the whole list as it is after the step.
PersistAfterSettlement ==
  [][SettledStep /\ alive =>
        bgq' = Append(bgq, Request("SAVE_CHAT_HISTORY", messages', getDomain))]_vars

\* The reply of the second send is settled and the list is not saved: the
\* record of the origin ends with the first exchange or is absent, because
\* the first placeholder was left streaming by a closed channel
WitnessSettledNotSaved ==
  /\ alive /\ nsends = 2 /\ Len(messages) = 4 /\ ~isLoading /\ bgq = <<>>
  /\ messages[2].isStreaming
  /\ ~messages[4].isStreaming
  /\ messages[4].content # <<>> /\ messages[4].content[1] # ErrorPrefix
  /\ store.chat[getDomain].messages # messages

\* The background handles the request at the head of its queue, of this type
Handles(type) ==
  /\ bgq # <<>> /\ Head(bgq).type = type
  /\ BackgroundOnMessage

\* What the background does with a clear and with a hydrate, and what the
\* save path never does
ClearHandledAndNeverSavedEmpty ==
  /\ Handles("CLEAR_CHAT_HISTORY") =>
        /\ Head(bgq).value = getDomain
        /\ store'.chat[getDomain] = NoRecord
  /\ Handles("GET_CHAT_HISTORY") /\ store.chat[Head(bgq).value] = NoRecord =>
        Last(replies').messages = <<>>
  /\ \A k \in 1..Len(bgq') :
        bgq'[k].type = "SAVE_CHAT_HISTORY" => bgq'[k].messages # <<>>
  /\ \A o \in Origins : store'.chat[o].present => store'.chat[o].messages # <<>>

\* C16 as stated: a clear empties the message list and the pending selected
\* context and asks the background to remove the record of the origin key;
\* the background removes it, a hydrate of a removed record returns the empty
\* history, and the save path never writes the empty list.
ClearRemovesRecord ==
  [][/\ handleClearChat =>
          /\ messages' = <<>> /\ selectedContext' = <<>>
          /\ bgq' = Append(bgq, Request("CLEAR_CHAT_HISTORY", <<>>, getDomain))
     /\ ClearHandledAndNeverSavedEmpty]_vars

\* C16 (as amended): the same, with the removal asked for only when the host
\* context is alive at the clear; in a dead context the clear empties the
\* panel and leaves the durable record as it was.
ClearRemovesRecordWhileAlive ==
  [][/\ handleClearChat =>
          /\ messages' = <<>> /\ selectedContext' = <<>>
          /\ alive => bgq' = Append(bgq, Request("CLEAR_CHAT_HISTORY", <<>>, getDomain))
          /\ ~alive => UNCHANGED <<bgq, store>>
     /\ ClearHandledAndNeverSavedEmpty]_vars

\* The list was cleared in a live context after a send, and the background
\* has handled the removal of the record of the origin
WitnessCleared ==
  /\ alive /\ nsends = 1 /\ ~isLoading /\ bgq = <<>>
  /\ Len(ports) = 1 /\ ports[1].pc = "closed"
  /\ messages = <<>> /\ selectedContext = <<>>
  /\ store.chat[getDomain] = NoRecord

\* The error texts of the model that contain 'API key'
MentionsApiKey(e) ==
  e \in {"API key not configured. Click the extension icon and set your OpenAI API key.",
         "Incorrect API key provided"}

\* C17: when the background takes up a streaming request and no API key is
\* stored, it does not go on to fetch and the events it has posted are exactly
\* one error event whose text mentions 'API key'; when the onMessage listener
\* takes an error event whose text contains 'API key', every message with the
\* placeholder's id is settled to the error text, the busy flag is released,
\* hasApiKey is false and the settings are shown.
MissingCredential ==
  [][\A p \in 1..Len(ports) :
       /\ StreamStart(p) /\ store.apiKey = "" =>
             /\ ports'[p].pc = "end"
             /\ Len(ports'[p].posted) = 1 /\ ports'[p].queue = ports'[p].posted
             /\ ports'[p].posted[1].type = "error"
             /\ MentionsApiKey(ports'[p].posted[1].error)
       /\ ( /\ PortOnMessage(p)
            /\ Head(ports[p].queue).type = "error"
            /\ MentionsApiKey(Head(ports[p].queue).error) ) =>
             /\ ~isLoading' /\ ~hasApiKey' /\ showSettings'
             /\ \A i \in WithId(messages', ports[p].assistantId) :
                   /\ ~messages'[i].isStreaming
                   /\ messages'[i].content = <<ErrorPrefix, Head(ports[p].queue).error>>]_vars

\* A send with no key stored has come back: its placeholder carries the
\* missing-key error, settled, and the settings are shown
WitnessMissingKeyShown ==
  /\ store.apiKey = "" /\ nsends = 1 /\ Len(messages) = 2
  /\ ~messages[2].isStreaming
  /\ messages[2].content = <<ErrorPrefix, NoKeyError>>
  /\ ~isLoading /\ ~hasApiKey /\ showSettings

\* The mode passed to the send of a step: handleContextAction passes its
\* mode, the send button and the quick actions pass none
ExplicitMode(m) == \E s \in SelectedTexts : handleContextAction(m, s)

\* C18: the request posted by an accepted send carries the message list as
\* it was before the send followed by the new user message, each reduced to
\* role and content and in list order, without the placeholder; its mode is
\* the mode passed to the send if one was passed and the active mode
\* otherwise; its model is the active model.
RequestEnvelope ==
  [][\A c \in SentContents : UserMessageAppended(c) /\ alive =>
        /\ Len(ports') = Len(ports) + 1
        /\ LET request == ports'[Len(ports')].request
           IN  /\ Len(request.messages) = Len(messages) + 1
               /\ \A i \in 1..Len(messages) :
                     request.messages[i] =
                       [role |-> messages[i].role, content |-> messages[i].content]
               /\ request.messages[Len(messages) + 1] = [role |-> "user", content |-> c]
               /\ \A m \in SessionModes : ExplicitMode(m) => request.mode = m
               /\ (~\E m \in SessionModes : ExplicitMode(m)) => request.mode = mode
               /\ request.model = selectedModel]_vars

\* A second send has just been accepted on a list of two messages: its
\* request carries those two and the new user message
WitnessSecondRequest ==
  /\ nsends = 2 /\ Len(ports) = 2 /\ ports[2].pc = "request"
  /\ Len(messages) = 4 /\ messages[4].isStreaming /\ messages[4].content = <<>>
  /\ Len(ports[2].request.messages) = 3
  /\ ports[2].request.messages[2].role = "assistant"
  /\ ports[2].request.messages[3] = [role |-> "user", content |-> messages[3].content]

\* ------------------------------------------------ the configuration model
\* The panel is mounted over a configuration store left by earlier sessions:
\* any model, a key or none. The content script of another tab of the same
\* extension writes the same store through the same background handlers.
\* Context actions send, the background takes the requests up and the remote
\* refuses them, so that a session has several requests.
ConfigKeys == {"sk-1", "sk-2"}

\* SET_API_KEY or SET_MODEL from another tab's handleSaveApiKey or
\* handleModelChange, handled by the background
ConfigChangesElsewhere ==
  /\ Quiet
  /\ \/ \E k \in ConfigKeys : store' = [store EXCEPT !.apiKey = k]
     \/ \E m \in Models : store' = [store EXCEPT !.model = m]
  /\ store' # store
  /\ UNCHANGED <<uiVars, alive, now, bgq, replies, ports, nsends, nsteps>>

ConfigInit ==
  /\ isOpen = FALSE /\ mode = "ask" /\ messages = <<>> /\ input = <<>>
  /\ isLoading = FALSE /\ selectedContext = <<>> /\ hasApiKey = TRUE
  /\ showSettings = FALSE /\ contextInvalidated = FALSE
  /\ selectedModel = DefaultModel
  /\ mounted = TRUE
  /\ alive = TRUE
  /\ now = 2
  /\ store \in [chat : {[o \in Origins |-> IF o = getDomain THEN NoRecord
                                           ELSE Record(StoredHistory)]},
                 apiKey : {""} \cup ApiKeys,
                 model : Models]
  /\ bgq = <<>>
  /\ replies = <<Reply("GET_API_KEY", <<>>, store.apiKey),
                 Reply("GET_MODEL", <<>>, store.model),
                 Reply("GET_CHAT_HISTORY", <<>>, "")>>
  /\ ports = <<>>
  /\ nsends = 0 /\ nsteps = 0

ConfigNext ==
  \/ \E s \in SelectedTexts : handleContextAction("explain", s)
  \/ Callback
  \/ BackgroundOnMessage
  \/ \E m \in Models : handleModelChange(m)
  \/ \E k \in ApiKeys : handleSaveApiKey(k)
  \/ ConfigChangesElsewhere
  \/ \E p \in 1..Len(ports) : StreamStart(p)
  \/ \E p \in 1..Len(ports) : StreamNotOk(p, "")
  \/ \E p \in 1..Len(ports) : PortOnMessage(p)

ConfigSpec == ConfigInit /\ [][ConfigNext]_vars

\* C19 as stated: the key and the model with which the background goes on to
\* the remote call are the stored key and the stored model at that moment.
ConfigReadFresh ==
  [][\A p \in 1..Len(ports) : StreamStart(p) /\ store.apiKey # "" =>
        /\ ports'[p].pc = "fetch"
        /\ ports'[p].key = store.apiKey
        /\ ports'[p].model = store.model]_vars

\* C19 (as amended): the key with which the background goes on to the remote
\* call is the stored key at that moment, and the model is the one the
\* request carries, which is the active model of the sending panel at the
\* send; the stored model is not consulted for a request that carries one.
KeyReadFreshModelFromRequest ==
  [][/\ \A p \in 1..Len(ports) : StreamStart(p) /\ store.apiKey # "" =>
          /\ ports'[p].pc = "fetch"
          /\ ports'[p].key = store.apiKey
          /\ ports'[p].model = ports[p].request.model
     /\ Len(ports') = Len(ports) + 1 =>
          /\ ports'[Len(ports')].request.model = selectedModel
          /\ ports'[Len(ports')].request.model # ""]_vars

\* The background is about to call the remote for the second request with
\* the key another tab has stored in the meantime, and with the model of the
\* request, which is not the stored one
WitnessStoredModelNotUsed ==
  /\ Len(ports) = 2 /\ ports[2].pc = "fetch"
  /\ ports[2].key = "sk-2" /\ store.apiKey = "sk-2"
  /\ ports[2].model = ports[2].request.model
  /\ ports[2].model # store.model

\* C20 as stated: the request of the send that a context action with a mode
\* other than 'ask' triggers carries the newly selected text as its context.
ContextPreSeeded ==
  [][\A m \in Modes \ {"ask"}, s \in ContextTexts :
        ( /\ handleContextAction(m, s)
          /\ Len(ports') = Len(ports) + 1 ) =>
        ports'[Len(ports')].request.context = s]_vars

\* The first context action has sent: the panel holds the selected text as
\* its context and the request went out with the empty context of before
WitnessRequestWithoutSelection ==
  /\ nsends = 1 /\ Len(ports) = 1 /\ ports[1].pc = "request"
  /\ selectedContext = <<"s">>
  /\ ports[1].request.context = <<>>
  /\ ports[1].request.mode \in Modes \ {"ask"}

\* The placeholder that the send of port p created: the last assistant
\* message of the list that carries the id the listeners of p close over
PlaceholderOf(p) ==
  LET I == WithId(messages, ports[p].assistantId)
  IN  IF I = {} THEN 0 ELSE Newest(I)

\* C21 as stated: an accepted send that passes the liveness check opens one
\* new channel with its request waiting on it and leaves the other channels
\* as they are, and an event taken from the channel of a send changes no
\* message other than the placeholder of that send.
FreshChannelPerSend ==
  [][/\ \A c \in SentContents : UserMessageAppended(c) /\ alive =>
          /\ Len(ports') = Len(ports) + 1
          /\ \A p \in 1..Len(ports) : ports'[p] = ports[p]
          /\ ports'[Len(ports')].pc = "request"
          /\ ports'[Len(ports')].posted = <<>>
          /\ ports'[Len(ports')].assistantId = now' + 1
     /\ \A p \in 1..Len(ports) : PortOnMessage(p) =>
          /\ Len(messages') = Len(messages)
          /\ \A i \in 1..Len(messages) :
                messages'[i] # messages[i] => i = PlaceholderOf(p)]_vars

\* Two sends drew the same id: both replies are settled, and the first
\* carries text that arrived on the channel of the second
WitnessEventsMixed ==
  /\ nsends = 2 /\ Len(messages) = 4 /\ ~isLoading
  /\ messages[2].id = messages[4].id
  /\ ~messages[2].isStreaming /\ ~messages[4].isStreaming
  /\ messages[4].content # <<>> /\ messages[4].content[1] # ErrorPrefix
  /\ Len(messages[2].content) > Len(messages[4].content)

\* A step in which a handler makes the liveness check and finds the context
\* dead: the interval, init, an accepted send, the save of a key
LivenessCheckFails ==
  /\ ~alive
  /\ \/ LivenessInterval
     \/ init
     \/ nsends' = nsends + 1
     \/ \E k \in ApiKeys : handleSaveApiKey(k)

\* The onDisconnect listener of port p runs with lastError e: the step is
\* what the listener does on seeing e
ClosureSaw(p, e) ==
  /\ PortOnDisconnect(p)
  /\ e \in LastErrors
  /\ contextInvalidated' = (contextInvalidated \/ e = InvalidatedError)

\* The callback of a request of one of the types runs with lastError e
CallbackSaw(types, e) ==
  /\ Callback
  /\ Head(replies).failed /\ Head(replies).type \in types
  /\ e \in LastErrors
  /\ Head(replies).type \in {"GET_API_KEY", "SET_API_KEY"} =>
        contextInvalidated' = (contextInvalidated \/ e = InvalidatedError)

\* The parts of the escalation that do not depend on the type of the request
EscalationOfChecksAndClosures ==
  /\ LivenessCheckFails => contextInvalidated'
  /\ \A p \in 1..Len(ports) :
        /\ ClosureSaw(p, InvalidatedError) => contextInvalidated'
        /\ ClosureSaw(p, "") => contextInvalidated' = contextInvalidated
        /\ PortOnDisconnect(p) /\ alive => contextInvalidated' = contextInvalidated

TransportNext ==
  \/ \E s \in SelectedTexts : handleContextAction("summarize", s)
  \/ Callback
  \/ BackgroundOnMessage
  \/ \E p \in 1..Len(ports) : StreamStart(p)
  \/ \E p \in 1..Len(ports), e \in RemoteErrors : StreamNotOk(p, e)
  \/ \E p \in 1..Len(ports) : StreamNotOkUnparseable(p)
  \/ \E p \in 1..Len(ports) : PortOnMessage(p)

TransportSpec == ContextInit /\ [][TransportNext]_vars

\* The remote answers the request of port p with a status other than success
NonSuccessAnswer(p) ==
  \/ \E e \in RemoteErrors : StreamNotOk(p, e)
  \/ StreamNotOkUnparseable(p)

\* C23 as stated: when the remote answers with a status other than success,
\* what the background has posted is exactly one error event, carrying an
\* error message of the endpoint or 'API request failed'; when that event is
\* folded, every message with the placeholder's id is settled with the
\* error-formatted string of that message as its content and the busy flag
\* is released.
TransportErrorSurfaced ==
  [][\A p \in 1..Len(ports) :
       /\ NonSuccessAnswer(p) =>
             /\ ports'[p].pc = "end"
             /\ Len(ports'[p].posted) = 1
             /\ ports'[p].posted[1].type = "error"
             /\ ports'[p].posted[1].error \in
                   (RemoteErrors \ {""}) \cup {"API request failed"}
       /\ ( /\ PortOnMessage(p) /\ ports[p].pc = "end" /\ ports[p].key # ""
            /\ Head(ports[p].queue).type = "error" ) =>
             /\ ~isLoading'
             /\ \A i \in WithId(messages', ports[p].assistantId) :
                   /\ ~messages'[i].isStreaming
                   /\ messages'[i].content = <<ErrorPrefix, Head(ports[p].queue).error>>]_vars

\* A request was answered with a status other than success and a body that
\* is not JSON: the reply is settled with the message of the JSON parser
WitnessParserMessageShown ==
  /\ nsends = 1 /\ Len(messages) = 2 /\ ~isLoading
  /\ ~messages[2].isStreaming
  /\ messages[2].content = <<ErrorPrefix, JsonSyntaxError>>

\* A complete 'data: ' line whose payload is neither the termination token
\* nor parseable
Malformed(line) ==
  /\ Len(line) >= 6 /\ SubSeq(line, 1, 6) = <<"d", "a", "t", "a", ":", " ">>
  /\ SubSeq(line, 7, Len(line)) # <<"[", "D", "O", "N", "E", "]">>
  /\ ~JSONParse(SubSeq(line, 7, Len(line))).ok

\* The complete lines of a response text, and the text made of those of them
\* that are not malformed
CompleteLines(text) == Front(SplitNL(text))
WithoutMalformed(text) ==
  Terminated(SelectSeq(CompleteLines(text), LAMBDA line : ~Malformed(line)))

\* handleStreamingChat has returned after reading a response with a
\* malformed line, and reader.read() has not thrown
ReadOverMalformed(port) ==
  /\ port.pc = "end" /\ port.key # ""
  /\ \E i \in 1..Len(CompleteLines(port.text)) : Malformed(CompleteLines(port.text)[i])
  /\ ~(port.posted # <<>> /\ Last(port.posted) = ErrorEvent(NetworkError))

\* C24: a response with malformed 'data: ' lines, read to its end in pieces
\* cut at any offsets, posts what the same response without those lines
\* posts when read in one piece, and its last event is done.
DecodeErrorsSkipped ==
  \A p \in 1..Len(ports) :
     ReadOverMalformed(ports[p]) =>
        /\ ports[p].posted = OnePiece(WithoutMalformed(ports[p].text))
        /\ Last(ports[p].posted) = DoneEvent

\* A malformed line and then a well-formed one were read, in pieces one of
\* which ended inside a line: the chunk of the second and the done are posted
WitnessMalformedThenChunk ==
  /\ ports[1].pc = "end" /\ ports[1].cut
  /\ ports[1].text = Terminated(<<DataLine(<<"{", "x">>), DataLine(<<"{", "y", "}">>)>>)
  /\ ports[1].posted = <<ChunkEvent(<<"y">>), DoneEvent>>

\* The step in which the onMessage listener of port p takes an error event
ErrorFolded(p) ==
  /\ ports[p].connected /\ ports[p].queue # <<>>
  /\ Head(ports[p].queue).type = "error"
  /\ ~ports'[p].connected

\* A step that ends a request: its done or error event is taken, its channel
\* is seen to close, or the send fails in its own handler
TerminalOutcome ==
  \/ \E p \in 1..Len(ports) : DoneFolded(p) \/ ErrorFolded(p) \/ ClosureSeen(p)
  \/ nsends' = nsends + 1 /\ Len(ports') = Len(ports)

\* C25: every step that ends a request leaves the busy flag released, and
\* with the busy flag released handleSendMessage does not return early on
\* any send that is not empty.
TerminalReleasesBusy ==
  [][TerminalOutcome =>
        /\ ~isLoading'
        /\ \A c \in SentContents \ {<<>>} : ~SendRejected(c)']_vars

\* The channel of the first send closed without a terminal event, and the
\* second send has been accepted and is in flight
WitnessSendAfterClosure ==
  /\ nsends = 2 /\ Len(ports) = 2 /\ isLoading /\ ~contextInvalidated
  /\ ports[1].pc = "closed" /\ ports[2].pc \in {"request", "fetch", "read"}
  /\ Len(messages) = 4 /\ messages[2].isStreaming /\ messages[4].isStreaming

\* ---------------------------------------------------------------------------
\* C26  no timeout

\* The busy flag is released in this step
BusyReleased == isLoading /\ ~isLoading'

\* C26: while a request is in flight the busy flag is released, and a
\* streaming placeholder is settled, only in a step that takes a done event,
\* takes an error event, sees the channel close, or fails in the send handler
\* itself; every other step, a mode change, a model change, a toggle of the
\* panel or of the settings among them, leaves the session busy and leaves
\* every streaming message that stays in the list streaming.
NoTimeout ==
  [][(BusyReleased \/ SettledStep) => TerminalOutcome]_vars

\* The request is in flight with its reader waiting on the remote, the
\* settings were toggled meanwhile, and the session is still busy with the
\* placeholder streaming
WitnessBusyAcrossToggle ==
  /\ nsends = 1 /\ Len(ports) = 1 /\ ports[1].pc = "read"
  /\ nsteps = 1 /\ showSettings
  /\ isLoading
  /\ Len(messages) = 2 /\ messages[2].isStreaming

\* ---------------------------------------------------------------------------
\* C27  retention of the messages of the session

\* C27 as stated: in every step that is not an explicit clear, each message
\* of the list stays in the list at its position, so that the pairs appended
\* by accepted sends are kept, in append order; the callback of the history
\* load of the mount effect is such a step.
MessagesRetained ==
  [][~handleClearChat => \A i \in 1..Len(messages) : SameMessage(i)]_vars

\* The history load answered after a send was accepted: the list is the
\* stored history, and the placeholder of the send, whose channel is still
\* open, is not in it
WitnessPairReplacedByHistory ==
  /\ nsends = 1 /\ Len(ports) = 1 /\ ports[1].connected
  /\ isLoading
  /\ messages = StoredHistory
  /\ WithId(messages, ports[1].assistantId) = {}

\* ---------------------------------------------------------------------------
\* C28  the error string replaces the partial reply

\* The pieces of a content
Pieces(content) == {content[k] : k \in 1..Len(content)}

\* C28: when the error event of a send is taken and the placeholder of that
\* send is in the list, the placeholder is settled with the error-formatted
\* string of the error text as its whole content: the content contains the
\* error text and none of the pieces that the chunk events had appended.
ErrorReplacesContent ==
  [][\A p \in 1..Len(ports) : ErrorFolded(p) /\ PlaceholderOf(p) # 0 =>
        LET i == PlaceholderOf(p)
            e == Head(ports[p].queue).error
        IN  /\ ~messages'[i].isStreaming
            /\ messages'[i].content = <<ErrorPrefix, e>>
            /\ Contains(messages'[i].content, <<e>>)
            /\ Pieces(messages[i].content) \cap Pieces(messages'[i].content) = {}]_vars

\* Chunks have been folded into the placeholder and the error event of the
\* failed read is the next event its listener takes
WitnessErrorAfterChunks ==
  /\ nsends = 1 /\ Len(ports) = 1 /\ ports[1].connected
  /\ ports[1].posted = <<ChunkEvent(<<"x">>), ChunkEvent(<<"y">>), ErrorEvent(NetworkError)>>
  /\ ports[1].queue = <<ErrorEvent(NetworkError)>>
  /\ Len(messages) = 2 /\ messages[2].isStreaming
  /\ messages[2].content = <<"x", "y">>

\* ---------------------------------------------------------------------------
\* C29  idle means settled

\* C29 as stated: in every reachable state in which the busy flag is false,
\* no message of the list has isStreaming = TRUE.
IdleMeansSettled == ~isLoading => ~SomeStreaming(messages)

\* The busy flag is released, no channel is left to deliver an event, and
\* the placeholder of the one send is streaming with a part of the reply
WitnessIdleWhileStreaming ==
  /\ ~isLoading /\ nsends = 1
  /\ \A p \in 1..Len(ports) : ports[p] = ClosedPort
  /\ Len(messages) = 2 /\ messages[2].isStreaming
  /\ messages[2].content # <<>>

\* ---------------------------------------------------------------------------
\* C30  one streaming message, the last of the list

\* The positions of the streaming messages of a list
StreamingAt(msgs) == {i \in 1..Len(msgs) : msgs[i].isStreaming}

\* C30 as stated: in every reachable state at most one message of the list
\* has isStreaming = TRUE, and if there is one it is the last message of the
\* list and has role assistant.
OneStreamingAtEnd ==
  /\ Cardinality(StreamingAt(messages)) <= 1
  /\ \A i \in StreamingAt(messages) : i = Len(messages) /\ messages[i].role = "assistant"

\* The reply of the second send is settled, and the placeholder of the
\* first, which has another id and lies before it, is still streaming
WitnessStreamingNotLast ==
  /\ nsends = 2 /\ Len(messages) = 4 /\ ~isLoading
  /\ messages[2].id # messages[4].id
  /\ messages[2].isStreaming /\ ~messages[4].isStreaming
  /\ messages[4].content # <<>>

\* ---------------------------------------------------------------------------
\* C31  the request handed to the remote endpoint

\* The envelopes handleStreamingChat can be given: every mode and a mode the
\* table of system prompts does not have, with and without a context, with
\* and without a model, after a first question or in a conversation
AssemblyModes == Modes \cup {"other"}
AssemblyRequests ==
  [messages : {RoleContent(<<UserMessage(2, <<"q">>)>>),
               RoleContent(StoredHistory \o <<UserMessage(2, <<"q">>)>>)},
   mode : AssemblyModes,
   context : {<<>>, <<"s">>},
   model : {""} \cup Models]

AssemblyInit ==
  /\ isOpen = TRUE /\ mode = "ask" /\ input = <<>>
  /\ messages = <<UserMessage(2, <<"q">>), StreamingMessage(3)>>
  /\ isLoading = TRUE /\ selectedContext = <<>> /\ hasApiKey = TRUE
  /\ showSettings = FALSE /\ contextInvalidated = FALSE
  /\ selectedModel = DefaultModel
  /\ mounted = TRUE
  /\ alive = TRUE
  /\ now = 2
  /\ store \in [chat : {[o \in Origins |-> NoRecord]},
                 apiKey : {""} \cup ApiKeys,
                 model : {""} \cup Models]
  /\ bgq = <<>> /\ replies = <<>>
  /\ \E request \in AssemblyRequests : ports = <<NewPort(3, request)>>
  /\ nsends = 1 /\ nsteps = 0

AssemblyNext ==
  \/ StreamStart(1)
  \/ StreamFetchThrows(1)
  \/ \E e \in RemoteErrors : StreamNotOk(1, e)
  \/ PortOnMessage(1)

AssemblySpec == AssemblyInit /\ [][AssemblyNext]_vars

\* The request of port p has been handed to fetch
Fetched(p) == ports[p].pc \in {"fetch", "read", "end"} /\ ports[p].key # ""

\* C31: the messages handed to the remote endpoint are one system message,
\* the instruction of the request's mode or the 'ask' instruction when the
\* mode is not one of the four, then one user message that carries the
\* context exactly when the context is not empty, then the messages of the
\* envelope in their order; the model is the model of the envelope if it
\* has one, else the stored model if there is one, else 'gpt-4o-mini'.
RemoteRequestAssembly ==
  /\ \A a, b \in Modes : a # b => systemPrompts(a) # systemPrompts(b)
  /\ \A p \in 1..Len(ports) : Fetched(p) =>
       LET r == ports[p].request
           m == ports[p].remote
           k == IF r.context # <<>> THEN 1 ELSE 0
       IN  /\ Len(m) = 1 + k + Len(r.messages)
           /\ m[1].role = "system"
           /\ m[1].content = IF r.mode \in Modes THEN systemPrompts(r.mode)
                             ELSE systemPrompts("ask")
           /\ k = 1 => m[2].role = "user" /\ Contains(m[2].content, r.context)
           /\ \A i \in 1..Len(r.messages) : m[1 + k + i] = r.messages[i]
           /\ ports[p].model = IF r.model # "" THEN r.model
                               ELSE IF store.model # "" THEN store.model
                               ELSE "gpt-4o-mini"

\* A conversation with a context, in a mode the table does not have and
\* without a model of its own, has been handed to fetch with the stored model
WitnessAssembledWithFallbacks ==
  /\ Len(ports) = 1 /\ ports[1].pc = "fetch"
  /\ ports[1].request.mode = "other" /\ ports[1].request.context = <<"s">>
  /\ ports[1].request.model = "" /\ store.model = "gpt-4o"
  /\ Len(ports[1].request.messages) = 3
  /\ Len(ports[1].remote) = 5
  /\ ports[1].model = "gpt-4o"

\* ---------------------------------------------------------------------------
\* C32  only non-empty deltas are chunks

\* One request from the moment the port carries it, with the listener of the
\* content script taking the events as they come. The background never posts
\* a chunk without text, so the guard of the listener is exercised by an
\* event of that form waiting on the channel at the start.
ChunkInit ==
  /\ isOpen = TRUE /\ mode = "explain" /\ input = <<>>
  /\ messages = <<UserMessage(2, prompts("explain", <<"s">>)), StreamingMessage(3)>>
  /\ isLoading = TRUE /\ selectedContext = <<"s">> /\ hasApiKey = TRUE
  /\ showSettings = FALSE /\ contextInvalidated = FALSE
  /\ selectedModel = DefaultModel
  /\ mounted = TRUE
  /\ alive = TRUE
  /\ now = 2
  /\ store = [chat |-> [o \in Origins |-> NoRecord], apiKey |-> "sk-1", model |-> DefaultModel]
  /\ bgq = <<>> /\ replies = <<>>
  /\ \E q \in {<<>>, <<ChunkEvent(<<>>)>>} :
        ports = <<[NewPort(3, StreamRequest) EXCEPT !.queue = q]>>
  /\ nsends = 1 /\ nsteps = 0

ChunkNext ==
  \/ StreamStart(1)
  \/ \E text \in ResponseTexts : StreamOpen(1, text)
  \/ \E n \in 1..Len(ports[1].body) : StreamRead(1, n)
  \/ StreamEnd(1)
  \/ PortOnMessage(1)

ChunkSpec == ChunkInit /\ [][ChunkNext]_vars

\* a is a proper prefix of b
ProperPrefix(a, b) == Len(a) < Len(b) /\ SubSeq(b, 1, Len(a)) = a

\* The listener of port p takes a chunk event in this step
ChunkTaken(p) ==
  /\ ports[p].connected /\ ports[p].queue # <<>>
  /\ Head(ports[p].queue).type = "chunk"
  /\ ports'[p].queue = Tail(ports[p].queue)

\* C32: every chunk event the background posts has text; the listener
\* leaves the message list as it is on a chunk event without text; and on a
\* chunk event with text the content the streaming message had is a proper
\* prefix of the content it has afterwards.
OnlyNonEmptyChunks ==
  [][/\ \A p \in 1..Len(ports') : \A k \in 1..Len(ports'[p].posted) :
          ports'[p].posted[k].type = "chunk" => ports'[p].posted[k].content # <<>>
     /\ \A p \in 1..Len(ports) : ChunkTaken(p) =>
          IF Head(ports[p].queue).content = <<>>
            THEN messages' = messages
            ELSE /\ Len(messages') = Len(messages)
                 /\ \A i \in WithId(messages, ports[p].assistantId) :
                       ProperPrefix(messages[i].content, messages'[i].content)]_vars

\* A payload without delta text and a payload with the delta 'x' have been
\* read: one chunk event was posted, the listener has taken all there was
\* on the channel, and the placeholder holds 'x'
WitnessEmptyIgnoredDeltasFolded ==
  /\ Len(ports) = 1 /\ ports[1].connected /\ ports[1].queue = <<>>
  /\ ports[1].text = Terminated(<<DataLine(<<"{", "}">>), DataLine(<<"{", "x", "}">>)>>)
  /\ ports[1].body = <<>>
  /\ ports[1].posted = <<ChunkEvent(<<"x">>)>>
  /\ messages[2].content = <<"x">> /\ messages[2].isStreaming

\* ---------------------------------------------------------------------------
\* C33  the termination token ends decoding

\* The positions of the termination line among the complete lines of a text
TokenLines(text) ==
  {i \in 1..Len(CompleteLines(text)) : CompleteLines(text)[i] = DataLine(DoneToken)}

\* The complete lines of a text up to and with its first termination line,
\* all of them when it has none
UpToToken(text) ==
  IF TokenLines(text) = {} THEN CompleteLines(text)
  ELSE SubSeq(CompleteLines(text), 1,
              CHOOSE i \in TokenLines(text) : \A j \in TokenLines(text) : i <= j)

\* The lines among them that start with the marker 'data: '
MarkedLines(lines) ==
  SelectSeq(lines, LAMBDA line :
     Len(line) >= 6 /\ SubSeq(line, 1, 6) = <<"d", "a", "t", "a", ":", " ">>)

\* handleStreamingChat is reading, or has returned from reading, a response
\* that has a termination line or a line without the marker
ReadingPastToken(port) ==
  /\ port.pc \in {"read", "end"} /\ port.key # "" /\ port.text # <<>>
  /\ \/ TokenLines(port.text) # {}
     \/ MarkedLines(CompleteLines(port.text)) # CompleteLines(port.text)

\* a is a prefix of b
Prefix(a, b) == Len(a) <= Len(b) /\ SubSeq(b, 1, Len(a)) = a

\* C33: of a response with a termination line, read in pieces cut at any
\* offsets, the events posted are at any moment a beginning of the events
\* of the marked lines up to and with the first termination line, one event
\* per line at most; they are all of them, ending in the one done, once
\* handleStreamingChat has returned without a throw; lines after the
\* termination line and lines without the marker post nothing.
TokenEndsDecoding ==
  \A p \in 1..Len(ports) :
     ReadingPastToken(ports[p]) =>
        LET port == ports[p]
            kept == MarkedLines(UpToToken(port.text))
            expected == OnePiece(Terminated(kept))
            thrown == port.posted # <<>> /\ Last(port.posted).type = "error"
        IN  /\ thrown => Prefix(Front(port.posted), expected)
            /\ ~thrown => Prefix(port.posted, expected)
            /\ Len(SelectSeq(port.posted, LAMBDA ev : ev.type = "chunk")) <= Len(kept)
            /\ Len(SelectSeq(port.posted, LAMBDA ev : ev.type = "done")) <= 1
            /\ ReadToEnd(port) => port.posted = expected

\* A response whose termination line is followed by a data line was read in
\* two pieces, the second of which held the end of the termination line and
\* the line after it: one done was posted and nothing for the line after it
WitnessLineAfterToken ==
  /\ Len(ports) = 1 /\ ports[1].pc = "end" /\ ports[1].cut /\ ports[1].body = <<>>
  /\ ports[1].text = Terminated(<<DataLine(DoneToken), DataLine(<<"{", "x", "}">>)>>)
  /\ ports[1].posted = <<DoneEvent>>

\* ---------------------------------------------------------------------------
\* C34  the unterminated last line

\* The text after the last newline of a response
Unterminated(text) == Last(SplitNL(text))

\* A complete line that carries a delta text
DeltaLines(lines) ==
  SelectSeq(lines, LAMBDA line : \E c \in ContentChars : line = DataLine(<<"{", c, "}">>))

\* The whole of a response without termination line and with an
\* unterminated last line has been read, and reader.read() has not thrown
ReadWithTail(port) ==
  /\ port.pc \in {"read", "end"} /\ port.key # "" /\ port.body = <<>>
  /\ port.text # <<>> /\ Unterminated(port.text) # <<>>
  /\ NoDoneLine(port.text)
  /\ ~(port.posted # <<>> /\ Last(port.posted).type = "error")

\* C34: of a response that ends in a line without newline, the last line is
\* never decoded, be it a data line or the termination token. While the end
\* of the stream has not been seen, what was posted is the chunks of the
\* complete lines and no done; after it, those chunks followed by the one
\* done of the end-of-stream path.
TailDiscarded ==
  \A p \in 1..Len(ports) :
     ReadWithTail(ports[p]) =>
        LET port == ports[p]
            chunks == SelectSeq(port.posted, LAMBDA ev : ev.type = "chunk")
        IN  /\ Len(chunks) = Len(DeltaLines(CompleteLines(port.text)))
            /\ port.buffer = Unterminated(port.text)
            /\ port.pc = "read" => port.posted = chunks
            /\ port.pc = "end" =>
                 /\ port.posted = chunks \o <<DoneEvent>>
                 /\ port.posted = OnePiece(Terminated(CompleteLines(port.text)))

\* A delta line and an unterminated data line were read to the end of the
\* stream: one chunk and the done
WitnessTailDataLine ==
  /\ Len(ports) = 1 /\ ports[1].pc = "end"
  /\ ports[1].text = Terminated(<<DataLine(<<"{", "y", "}">>)>>) \o DataLine(<<"{", "x", "}">>)
  /\ ports[1].body = <<>> /\ ports[1].cut
  /\ ports[1].posted = <<ChunkEvent(<<"y">>), DoneEvent>>

\* ---------------------------------------------------------------------------
\* C35  one record per origin

\* The background listener under the history requests of content scripts of
\* several origins: the message lists a save effect sends are settled and
\* not empty
SavedLists ==
  LET exchange == <<UserMessage(2, <<"q">>),
                    [id |-> 3, role |-> "assistant", content |-> <<"y">>,
                     isStreaming |-> FALSE]>>
  IN  {StoredHistory, exchange, StoredHistory \o exchange}

\* A content script of the origin domain sends GET_CHAT_HISTORY (init),
\* SAVE_CHAT_HISTORY (the save-history effect) or CLEAR_CHAT_HISTORY
\* (handleClearChat)
HistoryRequest(type, domain, msgs) ==
  /\ nsteps < MaxRequests
  /\ bgq' = Append(bgq, Request(type, msgs, domain))
  /\ nsteps' = nsteps + 1
  /\ UNCHANGED <<uiVars, alive, now, store, replies, ports, nsends>>

StorageInit ==
  /\ isOpen = FALSE /\ mode = "ask" /\ messages = <<>> /\ input = <<>>
  /\ isLoading = FALSE /\ selectedContext = <<>> /\ hasApiKey = TRUE
  /\ showSettings = FALSE /\ contextInvalidated = FALSE
  /\ selectedModel = DefaultModel
  /\ mounted = TRUE
  /\ alive = TRUE
  /\ now = 2
  /\ store \in [chat : [Origins -> {NoRecord, Record(StoredHistory)}],
                 apiKey : ApiKeys,
                 model : {DefaultModel}]
  /\ bgq = <<>> /\ replies = <<>>
  /\ ports = <<>>
  /\ nsends = 0 /\ nsteps = 0

StorageNext ==
  \/ \E domain \in Origins : HistoryRequest("GET_CHAT_HISTORY", domain, <<>>)
  \/ \E domain \in Origins, msgs \in SavedLists :
        HistoryRequest("SAVE_CHAT_HISTORY", domain, msgs)
  \/ \E domain \in Origins : HistoryRequest("CLEAR_CHAT_HISTORY", domain, <<>>)
  \/ BackgroundOnMessage

StorageSpec == StorageInit /\ [][StorageNext]_vars

\* The background listener handles a request of this type in this step
Handled(type) == bgq # <<>> /\ Head(bgq).type = type /\ BackgroundOnMessage

\* C35: handling SAVE_CHAT_HISTORY or CLEAR_CHAT_HISTORY for an origin
\* changes the record of no other origin, nor the stored credential, nor the
\* stored model; handling GET_CHAT_HISTORY changes nothing that is stored.
PerOriginIsolation ==
  [][/\ Handled("SAVE_CHAT_HISTORY") \/ Handled("CLEAR_CHAT_HISTORY") =>
          /\ \A o \in Origins \ {Head(bgq).value} : store'.chat[o] = store.chat[o]
          /\ store'.apiKey = store.apiKey
          /\ store'.model = store.model
     /\ Handled("GET_CHAT_HISTORY") => store' = store]_vars

\* A save of a conversation of four messages for one origin has been
\* handled, and the history of the other origin is in its record as it was
WitnessOtherOriginKept ==
  /\ bgq = <<>> /\ replies = <<>>
  /\ Len(store.chat["site"].messages) = 4
  /\ store.chat["other"] = Record(StoredHistory)

\* ---------------------------------------------------------------------------
\* C36  persist and hydrate

\* The background listener handles a request of this type for this origin
HandledFor(type, domain) == Handled(type) /\ Head(bgq).value = domain

\* C36: handling SAVE_CHAT_HISTORY(key, msgs) makes msgs the whole record
\* of the key, whatever the record was; no step but a save or a clear for
\* the key changes the record; and handling GET_CHAT_HISTORY(key) answers
\* with the messages of the record, the same messages in the same order, or
\* with the empty sequence when the key has no record, be it never saved or
\* cleared since.
PersistHydrateRoundTrip ==
  [][\A key \in Origins :
        /\ HandledFor("SAVE_CHAT_HISTORY", key) =>
              store'.chat[key] = [present |-> TRUE, messages |-> Head(bgq).messages]
        /\ HandledFor("CLEAR_CHAT_HISTORY", key) => ~store'.chat[key].present
        /\ ~(HandledFor("SAVE_CHAT_HISTORY", key) \/ HandledFor("CLEAR_CHAT_HISTORY", key)) =>
              store'.chat[key] = store.chat[key]
        /\ HandledFor("GET_CHAT_HISTORY", key) =>
              /\ Len(replies') = Len(replies) + 1
              /\ Last(replies').type = "GET_CHAT_HISTORY" /\ ~Last(replies').failed
              /\ Last(replies').messages =
                    IF store.chat[key].present THEN store.chat[key].messages ELSE <<>>]_vars

\* Over a stored history a conversation of four messages was saved for the
\* origin, and the history load that followed has been answered with the
\* four messages
WitnessSavedThenLoaded ==
  /\ bgq = <<>> /\ Len(replies) = 1
  /\ store.chat["other"] = Record(StoredHistory)
  /\ store.chat["site"].present /\ Len(store.chat["site"].messages) = 4
  /\ replies[1].messages = store.chat["site"].messages
  /\ \A i \in 1..4 : replies[1].messages[i].id = <<0, 1, 2, 3>>[i]

\* ---------------------------------------------------------------------------
\* C37  clear during streaming

EmptySendNoOp ==
  [][SendTyped /\ trim(input) = <<>> =>
        /\ messages' = messages
        /\ isLoading' = isLoading
        /\ input' = input
        /\ ports' = ports
        /\ store' = store /\ bgq' = bgq
        /\ nsends' = nsends]_vars

\* The chat is shown after a settled exchange, the session is idle and the
\* input field holds a blank: the send button sends nothing from here, and
\* the state after it is this state
WitnessBlankInput ==
  /\ mounted /\ alive /\ ChatShown /\ ~isLoading /\ bgq = <<>>
  /\ input = <<" ">>
  /\ nsends = 1 /\ Len(messages) = 2 /\ ~messages[2].isStreaming

\* ---------------------------------------------------------------------------
\* C39  message ids

\* C39 as stated: in every reachable state the messages of the list have
\* pairwise distinct ids.
IdsUnique ==
  \A i, j \in 1..Len(messages) : i # j => messages[i].id # messages[j].id

\* The second send came one millisecond after the first: its user message
\* has the id of the first send's assistant message
WitnessUserIdIsAssistantId ==
  /\ nsends = 2 /\ Len(messages) = 4
  /\ messages[2].role = "assistant" /\ messages[3].role = "user"
  /\ messages[3].id = messages[2].id
  /\ messages[4].id = messages[3].id + 1

====
